---------------------------- MODULE Spec2Model ----------------------------
(***************************************************************************)
(* Model of the autostereogram generator (namuol/magic-eye-anything).      *)
(*                                                                         *)
(* SpecSynth follows one regeneration through the synchronous tail of      *)
(* generateAutostereogram (src/src/main.ts 73-149): the disparity bounds,  *)
(* the two fillImage calls, the pixel loop one pixel at a time, and the    *)
(* publication of the finished raster.  Spec follows the application: the  *)
(* handlers of the controls, the debounce timers and the two halves of     *)
(* generateAutostereogram around its await.  SpecGrid, SpecResize and      *)
(* SpecDepth follow PixelGrid, the disparity bounds under a changing       *)
(* canvas width, and the rendering of the depth field.                     *)
(*                                                                         *)
(* Numbers.  disparityScale is kept in hundredths (the slider runs from    *)
(* 0.1 to 1.75 in steps of 0.01), so                                       *)
(*   floor(red/255 * (maxDisparity-minDisparity) * disparityScale)         *)
(* is (red * (maxDisparity-minDisparity) * scale100) \div 25500.  The      *)
(* double-precision result of the source expression equals this quotient   *)
(* for every canvas width below 45, every red value and every slider       *)
(* value; the widths of the model stay below that.  floor(0.15*w) and      *)
(* floor(0.2*w) equal (3*w) \div 20 and w \div 5 in doubles as well.       *)
(***************************************************************************)
EXTENDS Integers, Sequences, FiniteSets, TLC

(***************************************************************************)
(* Bounds of the model.                                                    *)
(***************************************************************************)
MaxWidth == 35
MaxHeight == 2
SpinCap == 2
AppWidth == 15
AppHeight == 1
DelayTicks == 2
MaxCount == 2
MaxInputs == 2
MaxGridWidth == 2
MaxGridHeight == 2
MaxFieldWidth == 10
MaxFieldHeight == 4
MaxImageSide == 3
HueUnit == 1        \* hues are counted in steps of 1 / HueUnit degree
MaxStrip == 6       \* strips of the pattern generators are at most this wide and high
MaxRadius == 1      \* radius of a confetti circle
MaxLength == 1      \* length of a sprinkle along either axis
MaxThickness == 1   \* lineWidth of a sprinkle

(***************************************************************************)
(* Values fixed by the program.                                            *)
(***************************************************************************)
MinScale == 10
MaxScale == 175
DefaultScale == 100

Null == "null"

(* null where a PixelGrid or an ImageData is expected *)
NoGrid == [width |-> 0, height |-> 0, data |-> << >>]

Widths == 1..MaxWidth
Heights == 1..MaxHeight
DepthValues == {0, 128, 255}
ScaleChoices == {MinScale, DefaultScale, MaxScale}
PresetPatterns == {"marbles.jpg", "flowers.jpg"}
Watermarks == {"LOU.WTF", ""}
PatternChoices == PresetPatterns \cup {"custom"}
Files == {"upload.png"}
DepthDisplayModes == {"clamp", "cutout", "popout"}
Owners == {"slider", "watermark"}
DefaultPattern == [source |-> "marbles.jpg", watermark |-> "LOU.WTF"]

(***************************************************************************)
(* PixelGrid (src/unnamed/part_002).  data is the RGBA buffer, indexed     *)
(* from 0.  A read outside the buffer yields undefined, which get replaces *)
(* by 0 (colour) or 255 (alpha); a write outside the buffer is dropped by  *)
(* the typed array.                                                        *)
(***************************************************************************)
PixelIndex(g, x, y) == (y * g.width + x) * 4

Sample(g, i, dflt) == IF i \in DOMAIN g.data THEN g.data[i] ELSE dflt

GridGet(g, x, y) ==
    LET index == PixelIndex(g, x, y)
    IN  << Sample(g, index + 0, 0),
           Sample(g, index + 1, 0),
           Sample(g, index + 2, 0),
           Sample(g, index + 3, 255) >>

(* a write past the end extends the buffer, as on a plain array *)
GridSetGrowing(g, x, y, pixel) ==
    LET index == PixelIndex(g, x, y)
        last  == IF index + 3 > g.width * g.height * 4 - 1 /\ index >= 0
                 THEN index + 3 ELSE g.width * g.height * 4 - 1
    IN  [g EXCEPT !.data =
            [i \in 0..last |->
                IF i \in index..(index + 3) THEN pixel[i - index + 1]
                ELSE IF i \in DOMAIN g.data THEN g.data[i] ELSE 0]]

(* the four components written in the opposite order *)
GridSetReversed(g, x, y, pixel) ==
    LET index == PixelIndex(g, x, y)
    IN  [g EXCEPT !.data =
            [i \in DOMAIN g.data |->
                IF i \in index..(index + 3) THEN pixel[4 - (i - index)]
                ELSE g.data[i]]]

GridSet(g, x, y, pixel) ==
    LET index == PixelIndex(g, x, y)
    IN  [g EXCEPT !.data =
            [i \in DOMAIN g.data |->
                IF i \in index..(index + 3) THEN pixel[i - index + 1]
                ELSE g.data[i]]]

NewGrid(w, h, pix) ==
    [width  |-> w,
     height |-> h,
     data   |-> [i \in 0..(w * h * 4 - 1) |->
                    pix[(i \div 4) % w, (i \div 4) \div w][(i % 4) + 1]]]

(***************************************************************************)
(* Inputs of a regeneration: the depth grid rendered at canvas size and    *)
(* the pattern strip read back from patternCanvas.                         *)
(***************************************************************************)
(* Depth rows alternate between two values, shifted by one column from a
   row to the next. *)
DepthRows == { << a, b >> : a \in DepthValues, b \in DepthValues }

DepthPixel(row, x, y) ==
    LET v == row[((x + y) % Len(row)) + 1] IN << v, v, v, 255 >>

DepthGridOf(row, w, h) ==
    NewGrid(w, h, [x \in 0..(w - 1), y \in 0..(h - 1) |->
                      DepthPixel(row, x, y)])

(* The strip drawn from a pattern source and stamped with the watermark:
   every pixel of the strip differs from every other, and strips of
   different sources or watermarks differ. *)
SourceCode(source) ==
    CASE source = "marbles.jpg" -> 10
      [] source = "flowers.jpg" -> 20
      [] OTHER -> 30

WatermarkCode(text) == IF text = "" THEN 0 ELSE 1

PatternPixel(kind, x, y) ==
    << x + 1, y + 1, SourceCode(kind.source) + WatermarkCode(kind.watermark),
       255 >>

PatternGridOf(kind, w, h) ==
    NewGrid(w, h, [x \in 0..(w - 1), y \in 0..(h - 1) |->
                      PatternPixel(kind, x, y)])

(***************************************************************************)
(* Disparity arithmetic of generateAutostereogram (main.ts 73-75, 136-144).*)
(***************************************************************************)
(* a tenth of the width instead of 0.15 of it *)
MinDisparityTenth(w) == w \div 10

MinDisparityOf(w) == (3 * w) \div 20

(* half of the width instead of a fifth *)
MaxDisparityHalf(w) == w \div 2

MaxDisparityOf(w) == w \div 5

(* Math.round in place of Math.floor *)
OffsetRounded(red, minD, maxD, scale100) ==
    (2 * red * (maxD - minD) * scale100 + 25500) \div 51000

(* the two bounds exchanged *)
OffsetInverted(red, minD, maxD, scale100) ==
    (red * (minD - maxD) * scale100) \div 25500

Offset(red, minD, maxD, scale100) ==
    (red * (maxD - minD) * scale100) \div 25500

(* the seed taken without its phase shift *)
SeedColumnNoOffset(x, offset, minD) == x % minD

(* the seed taken one column further right *)
SeedColumnOffByOne(x, offset, minD) == (x + offset + 1) % minD

SeedColumn(x, offset, minD) == (x + offset) % minD

(* the copy taken one column further right *)
CopyColumnOffByOne(x, offset, minD) == x + offset - minD + 1

CopyColumn(x, offset, minD) == x + offset - minD

StepPixel(out, depth, pat, minD, maxD, scale100, x, y) ==
    LET offset == Offset(GridGet(depth, x, y)[1], minD, maxD, scale100)
    IN  IF x < minD
        THEN GridSet(out, x, y, GridGet(pat, SeedColumn(x, offset, minD), y))
        ELSE GridSet(out, x, y, GridGet(out, CopyColumn(x, offset, minD), y))

(* The get and set calls one iteration of the pixel loop makes. *)
Access(name, g, x, y) ==
    [grid |-> name, x |-> x, y |-> y, width |-> g.width, height |-> g.height]

StepAccesses(out, depth, pat, minD, maxD, scale100, x, y) ==
    LET offset == Offset(GridGet(depth, x, y)[1], minD, maxD, scale100)
    IN  { Access("depth", depth, x, y), Access("output", out, x, y) }
        \cup (IF x < minD
              THEN { Access("pattern", pat, SeedColumn(x, offset, minD), y) }
              ELSE { Access("output", out, CopyColumn(x, offset, minD), y) })

(***************************************************************************)
(* fillImage (main.ts 629-661).  Math.ceil(a / b) with JavaScript's        *)
(* division: a/0 is Infinity for a > 0 and NaN for a = 0.  A loop test     *)
(* i < Infinity always passes, i < NaN never does.                         *)
(***************************************************************************)
CeilQuot(num, den) ==
    IF den = 0
    THEN (IF num = 0 THEN [tag |-> "NaN", n |-> 0]
                     ELSE [tag |-> "Infinity", n |-> 0])
    ELSE [tag |-> "number", n |-> (num + den - 1) \div den]

LoopTest(i, count) ==
    IF count.tag = "Infinity" THEN TRUE
    ELSE IF count.tag = "NaN" THEN FALSE
    ELSE i < count.n

(* tilesX = ceil(canvas.width / tileWidth) *)
TilesX(canvasW, tileWidth) == CeilQuot(canvasW, tileWidth)

(* tilesY = ceil(canvas.height / tileHeight),
   tileHeight = tileWidth * image.height / image.width *)
TilesY(canvasH, tileWidth, imageW, imageH) ==
    CeilQuot(canvasH * imageW, tileWidth * imageH)

(* The decoded pattern image handed to the first fillImage call. *)
PatternImageDims == [width |-> 2, height |-> 1]

Transparent == << 0, 0, 0, 0 >>

(* fillImage(patternCanvas, outputCanvas, tileWidth): the strip is as wide
   as a tile and as high as the canvas, so every tile is an unscaled copy
   of the strip drawn at x * tileWidth. *)
FillFromStrip(strip, canvasW, canvasH, tileWidth) ==
    LET tilesX == TilesX(canvasW, tileWidth)
        tilesY == TilesY(canvasH, tileWidth, strip.width, strip.height)
    IN  NewGrid(canvasW, canvasH,
                [x \in 0..(canvasW - 1), y \in 0..(canvasH - 1) |->
                    IF LoopTest(x \div tileWidth, tilesX)
                       /\ LoopTest(0, tilesY)
                    THEN GridGet(strip, x % tileWidth, y)
                    ELSE Transparent])

ClearedGrid(w, h) ==
    NewGrid(w, h, [x \in 0..(w - 1), y \in 0..(h - 1) |-> Transparent])

(***************************************************************************)
(* State.                                                                  *)
(***************************************************************************)
VARIABLES
    canvas,                   \* width and height of the 'canvas' element
    currentDepth,             \* appState.currentDepth
    disparityScale,           \* appState.disparityScale, in hundredths
    autostereogramImageData,  \* appState.autostereogramImageData
    isProcessing,             \* appState.isProcessing
    selectedPattern,          \* appState.selectedPattern
    customPatternFile,        \* appState.customPatternFile
    watermark,                \* appState.watermark
    depthDisplayMode,         \* appState.depthDisplayMode
    originalDepthEstimation,  \* appState.originalDepthEstimation
    calls,                    \* activations of generateAutostereogram that
                              \* await RawImage.fromURL, with their locals
    timers,                   \* per debounced handler: the live timers
                              \* (ticks left) and the one `timeout` names
    guiVisible,               \* the lil-gui panel is shown
    canvasHidden,             \* hidden attribute of the 'canvas' element
    fileDialog,               \* the file picker of customPatternInput is open
    photo,                    \* progress of the 'choose-a-photo' handler
    dropped,                  \* calls that returned at the isProcessing test
                              \* since the latest activation started
    debounced,                \* per debounced handler: events and invocations
    inputs,                   \* inputs made through the controls so far
    patternKind,              \* which strip the pattern source decodes to
    minDisparity,             \* locals of generateAutostereogram
    maxDisparity,
    pattern,
    output,
    cleared,                  \* the same loop run on a cleared output grid
    loopX,
    loopY,
    fillY,                    \* y of the fillImage loop in progress,
                              \* counted modulo SpinCap + 1
    accesses,                 \* get/set calls of the latest loop iteration
    pc,
    grid,                     \* a PixelGrid under a sequence of get and set calls
    lastCall,                 \* the latest call made on grid
    depthRender,              \* a rendering of the depth field, with its inputs
    ctx,                      \* the 2D context of a pattern generator's strip
    gradientColors,           \* appState.gradientColor1, 2 and 3
    held,                     \* the parameter values that have held, one
                              \* entry per instant, since the activation in
                              \* flight started
    currentImage,             \* appState.currentImage
    selections                \* the photos chosen, in order, each with the
                              \* position of its change handler

appOnly == << isProcessing, selectedPattern, customPatternFile, watermark,
              depthDisplayMode, originalDepthEstimation, calls, timers,
              guiVisible, canvasHidden, fileDialog, photo, dropped,
              debounced, inputs >>

synthLocals == << patternKind, minDisparity, maxDisparity, pattern, output,
                 cleared, loopX, loopY, fillY, accesses, pc >>

patternVars == << ctx, gradientColors >>

photoVars == << currentImage, selections >>

sideVars == << grid, lastCall, depthRender, patternVars, photoVars >>

unitVars == << sideVars, held >>

vars == << canvas, currentDepth, disparityScale, autostereogramImageData,
           appOnly, synthLocals, unitVars >>

NoCall == [op |-> "none", x |-> 0, y |-> 0, pixel |-> << 0, 0, 0, 0 >>]

NoRender == [phase |-> "none"]

NoContext == [op |-> "none"]

(* the three gradient colours left out (undefined) *)
NoColors == [given |-> FALSE]

(* no pattern generator under test *)
PatternIdle ==
    /\ ctx = NoContext
    /\ gradientColors = NoColors

(* no photo chosen (part_001 116) *)
PhotoIdle ==
    /\ currentImage = Null
    /\ selections = << >>

(* nothing under test outside the application *)
UnitIdle ==
    /\ grid = NoGrid
    /\ lastCall = NoCall
    /\ depthRender = NoRender
    /\ PatternIdle
    /\ held = {}
    /\ PhotoIdle

NoTimer == [live |-> {}, handle |-> -1]

NoEvents == [seen |-> FALSE, since |-> 0, fired |-> 0, burst |-> 0]

(* appState as declared (main.ts 36-51), nothing in flight *)
AppStateInit ==
    /\ isProcessing = FALSE
    /\ selectedPattern = "marbles.jpg"
    /\ customPatternFile = Null
    /\ watermark = "LOU.WTF"
    /\ depthDisplayMode = "clamp"
    /\ originalDepthEstimation = Null
    /\ calls = << >>
    /\ timers = [o \in Owners |-> NoTimer]
    /\ guiVisible = FALSE
    /\ canvasHidden = TRUE
    /\ fileDialog = FALSE
    /\ photo = "chooser"
    /\ dropped = 0
    /\ debounced = [o \in Owners |-> NoEvents]
    /\ inputs = 0

SynthInit ==
    /\ canvas \in [width : Widths, height : Heights]
    /\ \E row \in DepthRows :
          currentDepth = DepthGridOf(row, canvas.width, canvas.height)
    /\ disparityScale \in ScaleChoices
    /\ isProcessing = TRUE
    /\ selectedPattern = DefaultPattern.source
    /\ customPatternFile = Null
    /\ watermark = DefaultPattern.watermark
    /\ depthDisplayMode = "clamp"
    /\ originalDepthEstimation = "depth"
    /\ calls = << >>
    /\ timers = [o \in Owners |-> NoTimer]
    /\ guiVisible = TRUE
    /\ canvasHidden = TRUE
    /\ fileDialog = FALSE
    /\ photo = "shown"
    /\ dropped = 0
    /\ debounced = [o \in Owners |-> NoEvents]
    /\ inputs = 0
    /\ patternKind = DefaultPattern
    /\ autostereogramImageData = NoGrid
    /\ minDisparity = -1      \* not computed yet
    /\ maxDisparity = -1
    /\ pattern = NoGrid
    /\ output = NoGrid
    /\ cleared = NoGrid
    /\ loopX = 0
    /\ loopY = 0
    /\ fillY = 0
    /\ accesses = {}
    /\ pc = "start"
    /\ UnitIdle

(* the bounds computed by the first regeneration only and kept after it *)
ComputeDisparityOnce ==
    /\ pc = "start"
    /\ IF minDisparity >= 0
       THEN UNCHANGED << minDisparity, maxDisparity >>
       ELSE /\ minDisparity' = MinDisparityOf(canvas.width)
            /\ maxDisparity' = MaxDisparityOf(canvas.width)
    /\ pc' = "fillPattern"
    /\ UNCHANGED appOnly
    /\ UNCHANGED << canvas, currentDepth, disparityScale,
                    autostereogramImageData, patternKind, pattern, output,
                    cleared, loopX, loopY, fillY, accesses >>
    /\ UNCHANGED unitVars

(* main.ts 67-75 *)
ComputeDisparity ==
    /\ pc = "start"
    /\ minDisparity' = MinDisparityOf(canvas.width)
    /\ maxDisparity' = MaxDisparityOf(canvas.width)
    /\ pc' = "fillPattern"
    /\ UNCHANGED appOnly
    /\ UNCHANGED << canvas, currentDepth, disparityScale,
                    autostereogramImageData, patternKind, pattern, output,
                    cleared, loopX, loopY, fillY, accesses >>
    /\ UNCHANGED unitVars

(* main.ts 86-118: fillImage(patternImage, patternCanvas, tileWidth), one
   pass of its outer loop per step while the loop has no end; otherwise the
   whole call, the watermark and the read-back of the strip. *)
FillPatternSpin ==
    /\ pc = "fillPattern"
    /\ TilesY(canvas.height, minDisparity,
              PatternImageDims.width, PatternImageDims.height).tag = "Infinity"
    /\ LoopTest(fillY, TilesY(canvas.height, minDisparity,
                 PatternImageDims.width, PatternImageDims.height))
    /\ ~ LoopTest(0, TilesX(minDisparity, minDisparity))
    /\ fillY' = (fillY + 1) % (SpinCap + 1)
    /\ UNCHANGED appOnly
    /\ UNCHANGED << canvas, currentDepth, disparityScale,
                    autostereogramImageData, patternKind, minDisparity,
                    maxDisparity, pattern, output, cleared, loopX, loopY,
                    accesses, pc >>
    /\ UNCHANGED unitVars

FillPattern ==
    /\ pc = "fillPattern"
    /\ TilesY(canvas.height, minDisparity,
              PatternImageDims.width, PatternImageDims.height).tag = "number"
    /\ pattern' = PatternGridOf(patternKind, minDisparity, canvas.height)
    /\ pc' = "prefill"
    /\ UNCHANGED appOnly
    /\ UNCHANGED << canvas, currentDepth, disparityScale,
                    autostereogramImageData, patternKind, minDisparity,
                    maxDisparity, output, cleared, loopX, loopY, fillY,
                    accesses >>
    /\ UNCHANGED unitVars

(* main.ts 120-131 *)
Prefill ==
    /\ pc = "prefill"
    /\ output' = FillFromStrip(pattern, canvas.width, canvas.height,
                               minDisparity)
    /\ cleared' = ClearedGrid(canvas.width, canvas.height)
    /\ loopX' = 0
    /\ loopY' = 0
    /\ pc' = "loop"
    /\ UNCHANGED appOnly
    /\ UNCHANGED << canvas, currentDepth, disparityScale,
                    autostereogramImageData, patternKind, minDisparity,
                    maxDisparity, pattern, fillY, accesses >>
    /\ UNCHANGED unitVars

(* the loop writing into the raster that appState holds *)
PixelStepInPlace ==
    /\ pc = "loop"
    /\ loopY < output.height
    /\ loopX < output.width
    /\ output' = StepPixel(output, currentDepth, pattern, minDisparity,
                           maxDisparity, disparityScale, loopX, loopY)
    /\ autostereogramImageData' = output'
    /\ cleared' = StepPixel(cleared, currentDepth, pattern, minDisparity,
                            maxDisparity, disparityScale, loopX, loopY)
    /\ accesses' = StepAccesses(output, currentDepth, pattern, minDisparity,
                                maxDisparity, disparityScale, loopX, loopY)
    /\ IF loopX + 1 < output.width
       THEN loopX' = loopX + 1 /\ loopY' = loopY
       ELSE loopX' = 0 /\ loopY' = loopY + 1
    /\ UNCHANGED appOnly
    /\ UNCHANGED << canvas, currentDepth, disparityScale, patternKind,
                    minDisparity, maxDisparity, pattern, fillY, pc >>
    /\ UNCHANGED unitVars

(* main.ts 134-146, one iteration of the inner loop *)
PixelStep ==
    /\ pc = "loop"
    /\ loopY < output.height
    /\ loopX < output.width
    /\ output' = StepPixel(output, currentDepth, pattern, minDisparity,
                           maxDisparity, disparityScale, loopX, loopY)
    /\ cleared' = StepPixel(cleared, currentDepth, pattern, minDisparity,
                            maxDisparity, disparityScale, loopX, loopY)
    /\ accesses' = StepAccesses(output, currentDepth, pattern, minDisparity,
                                maxDisparity, disparityScale, loopX, loopY)
    /\ IF loopX + 1 < output.width
       THEN loopX' = loopX + 1 /\ loopY' = loopY
       ELSE loopX' = 0 /\ loopY' = loopY + 1
    /\ UNCHANGED appOnly
    /\ UNCHANGED << canvas, currentDepth, disparityScale,
                    autostereogramImageData, patternKind, minDisparity,
                    maxDisparity, pattern, fillY, pc >>
    /\ UNCHANGED unitVars

(* main.ts 148-149 *)
Publish ==
    /\ pc = "loop"
    /\ ~ (loopY < output.height)
    /\ autostereogramImageData' = output
    /\ pc' = "done"
    /\ UNCHANGED appOnly
    /\ UNCHANGED << canvas, currentDepth, disparityScale, patternKind,
                    minDisparity, maxDisparity, pattern, output, cleared,
                    loopX, loopY, fillY, accesses >>
    /\ UNCHANGED unitVars

SynthNext ==
    \/ ComputeDisparity
    \/ FillPatternSpin
    \/ FillPattern
    \/ Prefill
    \/ PixelStep
    \/ Publish

SpecSynth == SynthInit /\ [][SynthNext]_vars

(* The body of generateAutostereogram after its await is synchronous code:
   while a statement is left to run, one runs. *)
SpecSynthFair == SynthInit /\ [][SynthNext]_vars /\ WF_vars(SynthNext)

(***************************************************************************)
(* The application: event handlers of setupGUI and main, and the two       *)
(* halves of generateAutostereogram around its await.  Every handler runs  *)
(* to its end or to its next await in one step.                            *)
(***************************************************************************)

(* main.ts 57: the test at the top of generateAutostereogram *)
MayStartUnguarded(depth, processing) == depth # NoGrid

MayStart(depth, processing) == depth # NoGrid /\ ~ processing

(* main.ts 78-83 *)
PatternImageUrl(file, selected) ==
    IF file # Null THEN [kind |-> "blob", name |-> file]
    ELSE [kind |-> "url", name |-> selected]

(* RawImage.fromURL resolves for an object URL of the uploaded file and for
   a preset of the public folder; 'custom' names no image. *)
Loads(url) == url.kind = "blob" \/ url.name \in PresetPatterns

(* main.ts 56-85: generateAutostereogram up to its await.  depth is
   appState.currentDepth as the call finds it. *)
Generate(depth) ==
    IF MayStart(depth, isProcessing)
    THEN /\ isProcessing' = TRUE
         /\ canvasHidden' = TRUE
         /\ calls' = Append(calls,
               [patternImageUrl |->
                    PatternImageUrl(customPatternFile', selectedPattern'),
                minDisparity |-> MinDisparityOf(canvas.width),
                maxDisparity |-> MaxDisparityOf(canvas.width)])
         /\ dropped' = 0
    ELSE /\ UNCHANGED << isProcessing, canvasHidden, calls >>
         /\ dropped' = IF depth # NoGrid /\ dropped < MaxCount
                       THEN dropped + 1 ELSE dropped

(* main.ts 134-146, the whole loop, from pixel number i on *)
RECURSIVE RunLoop(_, _, _, _, _, _, _)
RunLoop(out, depth, pat, minD, maxD, scale100, i) ==
    IF i >= out.width * out.height THEN out
    ELSE RunLoop(StepPixel(out, depth, pat, minD, maxD, scale100,
                           i % out.width, i \div out.width),
                 depth, pat, minD, maxD, scale100, i + 1)

(* main.ts 86-149 for one activation: strip, pre-fill and pixel loop *)
Synthesize(call, depth, scale100, text) ==
    LET strip == PatternGridOf([source |-> call.patternImageUrl.name,
                                watermark |-> text],
                               call.minDisparity, canvas.height)
        start == FillFromStrip(strip, canvas.width, canvas.height,
                               call.minDisparity)
    IN  RunLoop(start, depth, strip, call.minDisparity, call.maxDisparity,
                scale100, 0)

Without(seq, i) == [j \in 1..(Len(seq) - 1) |-> IF j < i THEN seq[j]
                                                 ELSE seq[j + 1]]

(* main.ts 246-291: the depth field rendered for a display mode; the first
   value stands in the margin columns, the second over the image. *)
DepthRowOf(mode) ==
    CASE mode = "clamp" -> << 128, 255 >>
      [] mode = "cutout" -> << 255, 128 >>
      [] OTHER -> << 0, 128 >>

RenderDepth(mode) == DepthGridOf(DepthRowOf(mode), canvas.width, canvas.height)

(* debounce (main.ts 686-692) *)
ClearTimeoutSkipped(t) == t

ClearTimeout(t) == [t EXCEPT !.live = t.live \ {t.handle}]

SetTimeout(t, delay) == [live |-> t.live \cup {delay}, handle |-> delay]

DebouncedCall(t) == SetTimeout(ClearTimeout(t), DelayTicks)

(* bookkeeping of change events and invocations per debounced handler *)
NoteChange(e) ==
    [seen  |-> TRUE,
     since |-> 0,
     fired |-> 0,
     burst |-> IF e.seen /\ e.since < DelayTicks
               THEN (IF e.burst < MaxCount THEN e.burst + 1 ELSE e.burst)
               ELSE 1]

NoteTick(e) ==
    IF e.seen /\ e.since <= DelayTicks THEN [e EXCEPT !.since = e.since + 1]
    ELSE e

NoteFired(e) ==
    IF e.fired < MaxCount THEN [e EXCEPT !.fired = e.fired + 1] ELSE e

Init ==
    /\ canvas = [width |-> AppWidth, height |-> AppHeight]
    /\ currentDepth = NoGrid
    /\ disparityScale = DefaultScale
    /\ autostereogramImageData = NoGrid
    /\ isProcessing = FALSE
    /\ AppStateInit
    /\ patternKind = DefaultPattern
    /\ minDisparity = -1      \* not computed yet
    /\ maxDisparity = -1
    /\ pattern = NoGrid
    /\ output = NoGrid
    /\ cleared = NoGrid
    /\ loopX = 0
    /\ loopY = 0
    /\ fillY = 0
    /\ accesses = {}
    /\ pc = "idle"
    /\ UnitIdle

(* what a regeneration computes a frame from (main.ts 78-83, 96-98, 136,
   138) *)
Params ==
    [url            |-> PatternImageUrl(customPatternFile, selectedPattern),
     watermark      |-> watermark,
     disparityScale |-> disparityScale,
     depth          |-> currentDepth]

(* every handler leaves a new instant behind it; the values are noted while
   an activation of generateAutostereogram is in flight, from the instant
   it starts *)
Track ==
    held' = IF calls' = << >> THEN {}
            ELSE (IF calls = << >> THEN {} ELSE held) \cup {Params'}

(* main.ts 438-447: a photo is chosen *)
PhotoChosen ==
    /\ photo = "chooser"
    /\ photo' = "estimating"
    /\ guiVisible' = FALSE
    /\ UNCHANGED inputs
    /\ UNCHANGED << canvas, currentDepth, disparityScale,
                    autostereogramImageData, isProcessing, selectedPattern,
                    customPatternFile, watermark, depthDisplayMode,
                    originalDepthEstimation, calls, timers, canvasHidden,
                    fileDialog, dropped, debounced, synthLocals >>
    /\ UNCHANGED sideVars
    /\ Track

(* main.ts 463-507: the depth estimation arrives *)
DepthEstimated ==
    /\ photo = "estimating"
    /\ originalDepthEstimation' = "depth"
    /\ currentDepth' = RenderDepth(depthDisplayMode)
    /\ UNCHANGED << selectedPattern, customPatternFile >>
    /\ Generate(currentDepth')
    /\ IF MayStart(currentDepth', isProcessing)
       THEN photo' = "generating" /\ guiVisible' = guiVisible
       ELSE photo' = "shown" /\ guiVisible' = TRUE
    /\ UNCHANGED inputs
    /\ UNCHANGED << canvas, disparityScale, autostereogramImageData,
                    watermark, depthDisplayMode, timers, fileDialog,
                    debounced, synthLocals >>
    /\ UNCHANGED sideVars
    /\ Track

(* main.ts 308-315: the Depth slider moves *)
SliderChanged(v) ==
    /\ inputs < MaxInputs
    /\ inputs' = inputs + 1
    /\ guiVisible
    /\ v # disparityScale
    /\ disparityScale' = v
    /\ timers' = [timers EXCEPT !["slider"] = DebouncedCall(@)]
    /\ debounced' = [debounced EXCEPT !["slider"] = NoteChange(@)]
    /\ UNCHANGED << canvas, currentDepth, autostereogramImageData,
                    isProcessing, selectedPattern, customPatternFile,
                    watermark, depthDisplayMode, originalDepthEstimation,
                    calls, guiVisible, canvasHidden, fileDialog, photo,
                    dropped, synthLocals >>
    /\ UNCHANGED sideVars
    /\ Track

(* main.ts 361-368: the Watermark text changes *)
WatermarkChanged(text) ==
    /\ inputs < MaxInputs
    /\ inputs' = inputs + 1
    /\ guiVisible
    /\ text # watermark
    /\ watermark' = text
    /\ timers' = [timers EXCEPT !["watermark"] = DebouncedCall(@)]
    /\ debounced' = [debounced EXCEPT !["watermark"] = NoteChange(@)]
    /\ UNCHANGED << canvas, currentDepth, disparityScale,
                    autostereogramImageData, isProcessing, selectedPattern,
                    customPatternFile, depthDisplayMode,
                    originalDepthEstimation, calls, guiVisible, canvasHidden,
                    fileDialog, photo, dropped, synthLocals >>
    /\ UNCHANGED sideVars
    /\ Track

(* one tick of time; a timer that is due runs before time moves on *)
Tick ==
    /\ \A o \in Owners : 0 \notin timers[o].live
    /\ \E o \in Owners :
          timers[o].live # {} \/ NoteTick(debounced[o]) # debounced[o]
    /\ timers' = [o \in Owners |->
                    [live   |-> { r - 1 : r \in timers[o].live },
                     handle |-> IF timers[o].handle > 0
                                THEN timers[o].handle - 1
                                ELSE timers[o].handle]]
    /\ debounced' = [o \in Owners |-> NoteTick(debounced[o])]
    /\ UNCHANGED inputs
    /\ UNCHANGED << canvas, currentDepth, disparityScale,
                    autostereogramImageData, isProcessing, selectedPattern,
                    customPatternFile, watermark, depthDisplayMode,
                    originalDepthEstimation, calls, guiVisible, canvasHidden,
                    fileDialog, photo, dropped, synthLocals >>
    /\ UNCHANGED sideVars
    /\ Track

(* main.ts 312-314, 365-367: a debounce timer runs its function *)
TimerFired(o) ==
    /\ 0 \in timers[o].live
    /\ timers' = [timers EXCEPT ![o] =
                    [live   |-> @.live \ {0},
                     handle |-> IF @.handle = 0 THEN -1 ELSE @.handle]]
    /\ debounced' = [debounced EXCEPT ![o] = NoteFired(@)]
    /\ UNCHANGED << selectedPattern, customPatternFile >>
    /\ Generate(currentDepth)
    /\ UNCHANGED inputs
    /\ UNCHANGED << canvas, currentDepth, disparityScale,
                    autostereogramImageData, watermark, depthDisplayMode,
                    originalDepthEstimation, guiVisible, fileDialog, photo,
                    synthLocals >>
    /\ UNCHANGED sideVars
    /\ Track

(* main.ts 342-352: the Pattern dropdown changes *)
PatternSelected(p) ==
    /\ inputs < MaxInputs
    /\ inputs' = inputs + 1
    /\ guiVisible
    /\ p # selectedPattern
    /\ selectedPattern' = p
    /\ IF p = "custom"
       THEN /\ fileDialog' = TRUE
            /\ UNCHANGED << customPatternFile, isProcessing, canvasHidden,
                            calls, dropped >>
       ELSE /\ customPatternFile' = Null
            /\ fileDialog' = fileDialog
            /\ Generate(currentDepth)
    /\ UNCHANGED << canvas, currentDepth, disparityScale,
                    autostereogramImageData, watermark, depthDisplayMode,
                    originalDepthEstimation, timers, guiVisible, photo,
                    debounced, synthLocals >>
    /\ UNCHANGED sideVars
    /\ Track

(* main.ts 324-330: a file is picked in customPatternInput *)
FileChosen(f) ==
    /\ inputs < MaxInputs
    /\ inputs' = inputs + 1
    /\ fileDialog
    /\ fileDialog' = FALSE
    /\ customPatternFile' = f
    /\ UNCHANGED selectedPattern
    /\ Generate(currentDepth)
    /\ UNCHANGED << canvas, currentDepth, disparityScale,
                    autostereogramImageData, watermark, depthDisplayMode,
                    originalDepthEstimation, timers, guiVisible, photo,
                    debounced, synthLocals >>
    /\ UNCHANGED sideVars
    /\ Track

(* the file picker is closed without a file: no change event *)
FileDialogCancelled ==
    /\ inputs < MaxInputs
    /\ inputs' = inputs + 1
    /\ fileDialog
    /\ fileDialog' = FALSE
    /\ UNCHANGED << canvas, currentDepth, disparityScale,
                    autostereogramImageData, isProcessing, selectedPattern,
                    customPatternFile, watermark, depthDisplayMode,
                    originalDepthEstimation, calls, timers, guiVisible,
                    canvasHidden, photo, dropped, debounced, synthLocals >>
    /\ UNCHANGED sideVars
    /\ Track

(* main.ts 384-389, 231-240: the Depth Style dropdown changes *)
DepthStyleChanged(mode) ==
    /\ inputs < MaxInputs
    /\ inputs' = inputs + 1
    /\ guiVisible
    /\ mode # depthDisplayMode
    /\ depthDisplayMode' = mode
    /\ UNCHANGED << selectedPattern, customPatternFile >>
    /\ IF originalDepthEstimation # Null /\ currentDepth # NoGrid
       THEN /\ currentDepth' = RenderDepth(mode)
            /\ Generate(currentDepth')
       ELSE UNCHANGED << currentDepth, isProcessing, canvasHidden, calls,
                         dropped >>
    /\ UNCHANGED << canvas, disparityScale, autostereogramImageData,
                    watermark, originalDepthEstimation, timers, guiVisible,
                    fileDialog, photo, debounced, synthLocals >>
    /\ UNCHANGED sideVars
    /\ Track

(* main.ts 85-161: the pattern image arrives and the activation runs to
   its end; the handler of the photo, if it awaits this call, shows the
   controls (main.ts 509-511). *)
PatternLoaded(i) ==
    /\ i \in 1..Len(calls)
    /\ Loads(calls[i].patternImageUrl)
    /\ TilesY(canvas.height, calls[i].minDisparity,
              PatternImageDims.width, PatternImageDims.height).tag = "number"
    /\ autostereogramImageData' =
          Synthesize(calls[i], currentDepth, disparityScale, watermark)
    /\ canvasHidden' = FALSE
    /\ isProcessing' = FALSE
    /\ calls' = Without(calls, i)
    /\ IF photo = "generating"
       THEN photo' = "shown" /\ guiVisible' = TRUE
       ELSE UNCHANGED << photo, guiVisible >>
    /\ UNCHANGED inputs
    /\ UNCHANGED << canvas, currentDepth, disparityScale, selectedPattern,
                    customPatternFile, watermark, depthDisplayMode,
                    originalDepthEstimation, timers, fileDialog, dropped,
                    debounced, synthLocals >>
    /\ UNCHANGED sideVars
    /\ Track

(* main.ts 85, 694-700: RawImage.fromURL rejects; the activation ends
   there and the rejection reaches handleError. *)
PatternLoadFailed(i) ==
    /\ i \in 1..Len(calls)
    /\ calls' = Without(calls, i)
    /\ photo' = IF photo = "generating" THEN "failed" ELSE photo
    /\ UNCHANGED inputs
    /\ UNCHANGED << canvas, currentDepth, disparityScale,
                    autostereogramImageData, isProcessing, selectedPattern,
                    customPatternFile, watermark, depthDisplayMode,
                    originalDepthEstimation, timers, guiVisible, canvasHidden,
                    fileDialog, dropped, debounced, synthLocals >>
    /\ UNCHANGED sideVars
    /\ Track

Next ==
    \/ PhotoChosen
    \/ DepthEstimated
    \/ \E v \in ScaleChoices : SliderChanged(v)
    \/ \E text \in Watermarks : WatermarkChanged(text)
    \/ Tick
    \/ \E o \in Owners : TimerFired(o)
    \/ \E p \in PatternChoices : PatternSelected(p)
    \/ \E f \in Files : FileChosen(f)
    \/ FileDialogCancelled
    \/ \E mode \in DepthDisplayModes : DepthStyleChanged(mode)
    \/ \E i \in 1..Len(calls) : PatternLoaded(i)
    \/ \E i \in 1..Len(calls) : PatternLoadFailed(i)

Spec == Init /\ [][Next]_vars

(***************************************************************************)
(* Properties of one regeneration (SpecSynth).                             *)
(***************************************************************************)
Finished == pc = "done"

Columns == 0..(canvas.width - 1)
Rows == 0..(canvas.height - 1)

Red(x, y) == GridGet(currentDepth, x, y)[1]

(* offset(x,y) as the specification writes it:
   floor(D(x,y).red/255 * (maxDisparity - minDisparity) * disparityScale) *)
SpecOffset(x, y) ==
    (Red(x, y) * (maxDisparity - minDisparity) * disparityScale) \div 25500

O(x, y) == GridGet(autostereogramImageData, x, y)

P(x, y) == GridGet(pattern, x, y)

UniformDepth(v) == \A x \in Columns, y \in Rows : Red(x, y) = v

(* C1 -- Seed correctness: in the finished output every pixel of a column
   x < minDisparity equals the pattern pixel of the same row at column
   (x + offset(x,y)) mod minDisparity. *)
C1_SeedCorrectness ==
    Finished =>
        \A y \in Rows : \A x \in Columns :
            x < minDisparity =>
                O(x, y) = P((x + SpecOffset(x, y)) % minDisparity, y)

C1_Witness ==
    /\ Finished
    /\ \E y \in Rows : \E x \in Columns :
          /\ x < minDisparity
          /\ SpecOffset(x, y) > 0
          /\ O(x, y) # P(x, y)

(* C2 -- Zero disparity: when the red channel of the depth grid is 0 at
   every pixel, the finished output is the pattern tiled horizontally with
   period minDisparity. *)
C2_ZeroDisparity ==
    (Finished /\ UniformDepth(0)) =>
        \A y \in Rows : \A x \in Columns :
            O(x, y) = P(x % minDisparity, y)

C2_Witness ==
    /\ Finished
    /\ UniformDepth(0)
    /\ minDisparity >= 2
    /\ canvas.width > 2 * minDisparity

(* C3 -- Self-reference: in the finished output every pixel of a column
   x >= minDisparity equals the output pixel of the same row at column
   x + offset(x,y) - minDisparity. *)
C3_SelfReference ==
    Finished =>
        \A y \in Rows : \A x \in Columns :
            x >= minDisparity =>
                O(x, y) = O(x + SpecOffset(x, y) - minDisparity, y)

C3_Witness ==
    /\ Finished
    /\ \E y \in Rows : \E x \in Columns :
          /\ x >= minDisparity
          /\ SpecOffset(x, y) > 0
          /\ O(x, y) # O(x - minDisparity, y)

(* C4 -- The concrete scenario.  As written (W = 20): the bounds are 5 and
   7, the offset is 1 at every column and O(x,0) = O(x-4,0) for x in 5..19. *)
C4_ScenarioWidth20 ==
    (/\ Finished
     /\ canvas.width = 20
     /\ canvas.height = 1
     /\ UniformDepth(128)
     /\ disparityScale = 100)
    => /\ minDisparity = 5
       /\ maxDisparity = 7
       /\ \A x \in Columns : SpecOffset(x, 0) = 1
       /\ \A x \in 5..19 : O(x, 0) = O(x - 4, 0)

(* C4 as amended -- a canvas 35 wide is one for which the bounds computed
   from the width are 5 and 7; there the offset is 1 at every column and
   O(x,0) = O(x-4,0) for x in 5..34. *)
C4_ScenarioWidth35 ==
    (/\ Finished
     /\ canvas.width = 35
     /\ canvas.height = 1
     /\ UniformDepth(128)
     /\ disparityScale = 100)
    => /\ minDisparity = 5
       /\ maxDisparity = 7
       /\ \A x \in Columns : SpecOffset(x, 0) = 1
       /\ \A x \in 5..34 : O(x, 0) = O(x - 4, 0)

C4_Witness ==
    /\ Finished
    /\ canvas.width = 35
    /\ canvas.height = 1
    /\ UniformDepth(128)
    /\ disparityScale = 100
    /\ O(5, 0) = O(1, 0)
    /\ O(5, 0) # O(0, 0)

(* C5 -- Determinism whatever the output grid held before the loop: the
   run that starts from the pre-filled tiling and the run that starts from
   a cleared grid finish with the same raster. *)
C5_AnyInitialContents ==
    Finished => output = cleared

(* C5 as amended -- the two runs finish with the same raster whenever the
   offset is below minDisparity at every column x >= minDisparity. *)
C5_Determinism ==
    (/\ Finished
     /\ \A y \in Rows : \A x \in Columns :
            x >= minDisparity => SpecOffset(x, y) < minDisparity)
    => output = cleared

C5_Witness ==
    /\ Finished
    /\ output = cleared
    /\ \E y \in Rows : \E x \in Columns :
          x >= minDisparity /\ SpecOffset(x, y) > 0
    /\ FillFromStrip(pattern, canvas.width, canvas.height, minDisparity)
          # ClearedGrid(canvas.width, canvas.height)

(* C6 -- Monotonicity: at a pixel whose depth value is positive, a larger
   disparityScale never gives a smaller offset; maxDisparity is never below
   minDisparity. *)
RedValues == { Red(x, y) : x \in Columns, y \in Rows }

C6_Monotonicity ==
    pc = "fillPattern" =>
        /\ maxDisparity >= minDisparity
        /\ \A red \in RedValues : red > 0 =>
              \A s \in MinScale..MaxScale :
                 /\ s <= disparityScale =>
                       Offset(red, minDisparity, maxDisparity, s)
                          <= Offset(red, minDisparity, maxDisparity,
                                    disparityScale)
                 /\ s >= disparityScale =>
                       Offset(red, minDisparity, maxDisparity, s)
                          >= Offset(red, minDisparity, maxDisparity,
                                    disparityScale)

C6_Witness ==
    /\ pc = "fillPattern"
    /\ disparityScale = DefaultScale
    /\ \E red \in RedValues :
          /\ red > 0
          /\ Offset(red, minDisparity, maxDisparity, MinScale)
                < Offset(red, minDisparity, maxDisparity, disparityScale)
          /\ Offset(red, minDisparity, maxDisparity, disparityScale)
                < Offset(red, minDisparity, maxDisparity, MaxScale)

(* C7 -- Rejection: once the bounds are computed and minDisparity <= 0,
   the only thing the regeneration does is to reject. *)
C7_RejectsNonPositive ==
    [][(pc = "fillPattern" /\ minDisparity <= 0) => pc' = "rejected"]_vars

(* C8 -- Every get and set call of the pixel loop addresses a pixel inside
   the grid it is made on. *)
C8_AccessesInRange ==
    \A a \in accesses :
        /\ 0 <= a.x /\ a.x < a.width
        /\ 0 <= a.y /\ a.y < a.height

C8_Witness ==
    /\ pc = "loop"
    /\ \E a \in accesses : a.grid = "pattern" /\ a.x = a.width - 1 /\ a.x > 0
    /\ \E a \in accesses : a.grid = "depth" /\ a.y = a.height - 1 /\ a.y > 0

C8_WitnessCopy ==
    /\ pc = "loop"
    /\ Cardinality({ a \in accesses : a.grid = "output" }) = 2
    /\ \E a \in accesses : a.grid = "output" /\ a.x = a.width - 1

(***************************************************************************)
(* Properties of the application (Spec).                                   *)
(***************************************************************************)

(* C9 -- At most one regeneration at a time: there is never more than one
   activation of generateAutostereogram past the isProcessing test, an
   activation in flight keeps isProcessing true, and a step taken while
   isProcessing is true that does not end an activation starts no pattern
   load and leaves the stored raster alone. *)
C9_OneRegenerationAtATime ==
    [][/\ Len(calls) <= 1
       /\ Len(calls') <= 1
       /\ (Len(calls') = 1 => isProcessing')
       /\ (isProcessing /\ Len(calls') >= Len(calls)) =>
             /\ calls' = calls
             /\ autostereogramImageData' = autostereogramImageData]_vars

C9_Witness ==
    /\ isProcessing
    /\ Len(calls) = 1
    /\ dropped > 0
    /\ autostereogramImageData # NoGrid

(* C10 -- Debounce coalescing: after a change event of a debounced handler
   the wrapped function is not invoked while less than the delay has passed
   since the latest event, and once more than the delay has passed it has
   been invoked exactly once. *)
C10_DebounceCoalescing ==
    \A o \in Owners :
        debounced[o].seen =>
            /\ debounced[o].fired <= 1
            /\ debounced[o].since < DelayTicks => debounced[o].fired = 0
            /\ debounced[o].since > DelayTicks => debounced[o].fired = 1

C10_Witness ==
    \E o \in Owners :
        /\ debounced[o].burst >= 2
        /\ debounced[o].fired = 1
        /\ debounced[o].since = DelayTicks

(* C11 -- A request that arrives while a regeneration is in flight is
   queued: whenever a call has returned at the isProcessing test since the
   latest activation started, a regeneration is in flight or has been
   started for it; no state is left with such a request and nothing
   running. *)
C11_RequestInFlightIsQueued == dropped > 0 => isProcessing

(* The regeneration the current parameters ask for. *)
CurrentUrl == PatternImageUrl(customPatternFile, selectedPattern)

CurrentCall ==
    [patternImageUrl |-> CurrentUrl,
     minDisparity |-> MinDisparityOf(canvas.width),
     maxDisparity |-> MaxDisparityOf(canvas.width)]

(* an image is loaded, nothing is in flight and no debounce timer is pending *)
Settled ==
    /\ photo = "shown"
    /\ currentDepth # NoGrid
    /\ ~ isProcessing
    /\ calls = << >>
    /\ \A o \in Owners : timers[o].live = {}

(* C12 -- Output follows parameter changes: with an image loaded, nothing
   in flight, no debounce timer pending and a pattern source that names an
   image, the stored autostereogram is the one synthesised from the current
   selectedPattern/customPatternFile, watermark, disparityScale and
   currentDepth. *)
C12_OutputFollowsParameters ==
    (Settled /\ Loads(CurrentUrl)) =>
        autostereogramImageData =
            Synthesize(CurrentCall, currentDepth, disparityScale, watermark)

(* a step in which the pattern image of an activation fails to load *)
LoadFails == \E i \in 1..Len(calls) : PatternLoadFailed(i)

(* C13 -- Failures are recoverable: when the pattern source cannot be
   loaded, the regeneration ends and isProcessing is false afterwards. *)
C13_FailureResetsIsProcessing == [][LoadFails => ~ isProcessing']_vars

(* C14 -- A failed regeneration retains the previously displayed output:
   when the pattern fails to load while a previous output exists, the stored
   autostereogramImageData is unchanged and the canvas is visible again. *)
C14_FailureKeepsOutputVisible ==
    [][(LoadFails /\ autostereogramImageData # NoGrid) =>
          /\ autostereogramImageData' = autostereogramImageData
          /\ ~ canvasHidden']_vars

(* C15 -- Every started regeneration runs to completion: for every canvas
   width and height of at least 1 and a pattern that loads, both fillImage
   calls return, the pixel loop finishes and the output is published. *)
C15_RunsToCompletion == <>Finished

(***************************************************************************)
(* PixelGrid on its own (src/unnamed/part_002): a grid of any small size   *)
(* under any sequence of get and set calls, with coordinates inside the    *)
(* grid and one step outside it on every side.                             *)
(***************************************************************************)
GridWidths == 1..MaxGridWidth
GridHeights == 1..MaxGridHeight

(* contents of the ImageData the grid is built on: no two pixels alike,
   none equal to the defaults of get *)
ImagePixel(x, y) == << x + 1, y + 1, 0, 255 >>

InitialGrid(w, h) ==
    NewGrid(w, h, [x \in 0..(w - 1), y \in 0..(h - 1) |-> ImagePixel(x, y)])

(* the pixel handed to set *)
SetPixels == { << 9, 8, 7, 6 >> }

CallXs(g) == -1..g.width
CallYs(g) == -1..g.height

GridInit ==
    /\ canvas = [width |-> AppWidth, height |-> AppHeight]
    /\ currentDepth = NoGrid
    /\ disparityScale = DefaultScale
    /\ autostereogramImageData = NoGrid
    /\ AppStateInit
    /\ patternKind = DefaultPattern
    /\ minDisparity = -1
    /\ maxDisparity = -1
    /\ pattern = NoGrid
    /\ output = NoGrid
    /\ cleared = NoGrid
    /\ loopX = 0
    /\ loopY = 0
    /\ fillY = 0
    /\ accesses = {}
    /\ pc = "idle"
    /\ \E w \in GridWidths, h \in GridHeights : grid = InitialGrid(w, h)
    /\ lastCall = NoCall
    /\ depthRender = NoRender
    /\ PatternIdle
    /\ held = {}
    /\ PhotoIdle

(* part_002 19-27: get(x, y) *)
GetCall(x, y) ==
    /\ lastCall' = [op |-> "get", x |-> x, y |-> y,
                    pixel |-> GridGet(grid, x, y)]
    /\ grid' = grid
    /\ UNCHANGED << canvas, currentDepth, disparityScale,
                    autostereogramImageData, appOnly, synthLocals,
                    held, photoVars,
                    depthRender, patternVars >>

(* part_002 30-36: set(x, y, pixel) *)
SetCall(x, y, pixel) ==
    /\ grid' = GridSet(grid, x, y, pixel)
    /\ lastCall' = [op |-> "set", x |-> x, y |-> y, pixel |-> pixel]
    /\ UNCHANGED << canvas, currentDepth, disparityScale,
                    autostereogramImageData, appOnly, synthLocals,
                    held, photoVars,
                    depthRender, patternVars >>

GridNext ==
    \/ \E x \in CallXs(grid), y \in CallYs(grid) : GetCall(x, y)
    \/ \E x \in CallXs(grid), y \in CallYs(grid), pixel \in SetPixels :
          SetCall(x, y, pixel)

SpecGrid == GridInit /\ [][GridNext]_vars

(***************************************************************************)
(* Properties of PixelGrid (SpecGrid).                                     *)
(***************************************************************************)
InRange(g, x, y) == x \in 0..(g.width - 1) /\ y \in 0..(g.height - 1)

Cells(g) == (0..(g.width - 1)) \X (0..(g.height - 1))

(* C16 -- Out-of-range policy: a get with coordinates outside the grid
   never returns the stored value of an in-range pixel, and a set with
   such coordinates changes no in-range pixel. *)
C16_OutOfRangePolicy ==
    [][~ InRange(grid, lastCall'.x, lastCall'.y) =>
          /\ lastCall'.op = "get" =>
                \A c \in Cells(grid) :
                    lastCall'.pixel # GridGet(grid, c[1], c[2])
          /\ lastCall'.op = "set" =>
                \A c \in Cells(grid) :
                    GridGet(grid', c[1], c[2]) = GridGet(grid, c[1], c[2])]_vars

(* C17 -- Size invariant: no get or set call, in range or out of range,
   changes the width or the height of the grid, and the buffer length stays
   width * height * 4. *)
C17_SizeInvariant ==
    [][/\ grid'.width = grid.width
       /\ grid'.height = grid.height
       /\ DOMAIN grid.data = 0..(grid.width * grid.height * 4 - 1)
       /\ DOMAIN grid'.data = 0..(grid'.width * grid'.height * 4 - 1)]_vars

(* a set call whose index lies past the end of the buffer has been made *)
C17_Witness ==
    /\ lastCall.op = "set"
    /\ ~ InRange(grid, lastCall.x, lastCall.y)
    /\ PixelIndex(grid, lastCall.x, lastCall.y) >= grid.width * grid.height * 4
    /\ \E c \in Cells(grid) : GridGet(grid, c[1], c[2]) \in SetPixels

(* C18 -- Round trip and frame: after set(x, y, p) with (x, y) in range,
   get(x, y) returns p and every other in-range pixel reads as before; a
   get call leaves the grid as it was. *)
C18_RoundTripAndFrame ==
    [][/\ (lastCall'.op = "set" /\ InRange(grid, lastCall'.x, lastCall'.y)) =>
             /\ GridGet(grid', lastCall'.x, lastCall'.y) = lastCall'.pixel
             /\ \A c \in Cells(grid) :
                   c # << lastCall'.x, lastCall'.y >> =>
                       GridGet(grid', c[1], c[2]) = GridGet(grid, c[1], c[2])
       /\ lastCall'.op = "get" => grid' = grid]_vars

(* a pixel has been set in range while another still holds its first value *)
C18_Witness ==
    /\ lastCall.op = "set"
    /\ InRange(grid, lastCall.x, lastCall.y)
    /\ GridGet(grid, lastCall.x, lastCall.y) = lastCall.pixel
    /\ \E c \in Cells(grid) :
          /\ c # << lastCall.x, lastCall.y >>
          /\ GridGet(grid, c[1], c[2]) = ImagePixel(c[1], c[2])

(***************************************************************************)
(* Regenerations one after another on a canvas whose width the page        *)
(* changes in between (SpecResize).  Nothing in the repository assigns the *)
(* size of the 'canvas' element; generateAutostereogram reads it anew on   *)
(* every call (main.ts 67-71).  Only the disparity bounds are followed     *)
(* here: what a regeneration does after computing them is one step.        *)
(***************************************************************************)
CanvasWidths == 0..MaxWidth

(* the first regeneration is about to compute its bounds *)
ResizeInit ==
    /\ SynthInit
    /\ canvas = [width |-> AppWidth, height |-> AppHeight]
    /\ currentDepth = DepthGridOf(<< 0, 0 >>, AppWidth, AppHeight)
    /\ disparityScale = DefaultScale

(* the width attribute of the 'canvas' element is changed, after a first
   regeneration has read it *)
CanvasResized(w) ==
    /\ minDisparity >= 0
    /\ w # canvas.width
    /\ canvas' = [canvas EXCEPT !.width = w]
    /\ UNCHANGED << currentDepth, disparityScale, autostereogramImageData,
                    appOnly, synthLocals, unitVars >>

(* main.ts 76-162: the regeneration goes on with the bounds it computed and
   ends; the next call of generateAutostereogram starts at its top *)
RegenerationEnds ==
    /\ pc = "fillPattern"
    /\ pc' = "start"
    /\ UNCHANGED << canvas, currentDepth, disparityScale,
                    autostereogramImageData, appOnly, patternKind,
                    minDisparity, maxDisparity, pattern, output, cleared,
                    loopX, loopY, fillY, accesses, unitVars >>

ResizeNext ==
    \/ ComputeDisparity
    \/ RegenerationEnds
    \/ \E w \in CanvasWidths : CanvasResized(w)

SpecResize == ResizeInit /\ [][ResizeNext]_vars

(* C19 -- Disparity parameters are never stale: every regeneration
   computes minDisparity = floor(0.15 * W) and maxDisparity = floor(0.2 * W)
   from the canvas width W it finds when it starts, whatever the width was
   at earlier regenerations, and minDisparity <= maxDisparity. *)
C19_BoundsFollowWidth ==
    [][(pc = "start" /\ pc' = "fillPattern") =>
          /\ minDisparity' = (15 * canvas.width) \div 100
          /\ maxDisparity' = (20 * canvas.width) \div 100
          /\ minDisparity' <= maxDisparity']_vars

(* a regeneration has computed bounds that differ from those of the width
   the first regeneration ran with *)
C19_Witness ==
    /\ pc = "fillPattern"
    /\ canvas.width # AppWidth
    /\ minDisparity = (15 * canvas.width) \div 100
    /\ minDisparity # (15 * AppWidth) \div 100
    /\ maxDisparity # (20 * AppWidth) \div 100

(***************************************************************************)
(* Rendering of the depth field (main.ts 246-291, 469-504, 524-624).       *)
(*                                                                         *)
(* Lengths on the canvas are fractions; they are kept as integers in units *)
(* of 1/Den(iw, ih) of a pixel, Den = 20 * imageWidth * imageHeight, which *)
(* makes padding, scale, scaledWidth, scaledHeight, x and y exact.         *)
(* A pixel is covered by a drawImage call when the destination rectangle   *)
(* overlaps the pixel's square; it then takes the colour of the nearest    *)
(* source sample (no blending of partly covered pixels).                   *)
(***************************************************************************)
FieldWidths == 1..MaxFieldWidth
FieldHeights == 1..MaxFieldHeight
ImageSides == 1..MaxImageSide

Black == 0
White == 255

Grey(level) == << level, level, level, 255 >>

(* the depth estimation as a raster: no two samples alike, none black or
   white *)
DepthImageLevel(ix, iy) == 100 + 10 * ix + iy

Den(iw, ih) == 20 * iw * ih

(* main.ts 538-552, in units of 1/Den *)
Geometry(mode, cw, ch, iw, ih) ==
    LET pad10   == IF mode \in {"cutout", "popout"} THEN cw ELSE 0
        availW  == 10 * cw - pad10
        availH  == 10 * ch - pad10
        byWidth == availW * ih <= availH * iw
        sw      == IF byWidth THEN availW * 2 * iw * ih
                              ELSE availH * 2 * iw * iw
        sh      == IF byWidth THEN availW * 2 * ih * ih
                              ELSE availH * 2 * iw * ih
    IN  [scaledWidth  |-> sw,
         scaledHeight |-> sh,
         x |-> (cw * Den(iw, ih) - sw) \div 2,
         y |-> (ch * Den(iw, ih) - sh) \div 2]

(* a destination extent given by its start and its signed length *)
Lo(start, len) == IF len >= 0 THEN start ELSE start + len
Hi(start, len) == IF len >= 0 THEN start + len ELSE start

(* pixel p (one of the columns, or of the rows) overlaps [lo, hi) *)
Overlaps(p, lo, hi, den) == lo < hi /\ p * den < hi /\ lo < (p + 1) * den

Clip(v, lo, hi) == IF v < lo THEN lo ELSE IF v > hi THEN hi ELSE v

(* index of the source sample drawn at the centre of pixel p, for a
   destination extent of signed length len starting at start *)
SampleIndex(p, start, len, n, den) ==
    LET off == (2 * p + 1) * den - 2 * start
        i   == IF len > 0 THEN (off * n) \div (2 * len)
               ELSE ((0 - off) * n) \div (2 * (0 - len))
    IN  Clip(i, 0, n - 1)

(* main.ts 479 (first render) and 259-266 (later renders): the fill made
   by the caller of drawImageCentered *)
CallerFill(first, mode) ==
    IF first THEN Black
    ELSE IF mode = "popout" THEN Black
    ELSE IF mode = "cutout" THEN White
    ELSE Black

(* black for every policy *)
ModeFillBlack(mode, under) == IF mode \in {"popout", "cutout"} THEN Black
                              ELSE under

(* main.ts 554-560: the fill made by drawImageCentered itself; clamp keeps
   what is there *)
ModeFill(mode, under) ==
    IF mode = "popout" THEN Black
    ELSE IF mode = "cutout" THEN White
    ELSE under

(* main.ts 564: drawImage(image, x, y, scaledWidth, scaledHeight) *)
ImageCovers(geo, px, py, den) ==
    /\ Overlaps(px, Lo(geo.x, geo.scaledWidth), Hi(geo.x, geo.scaledWidth), den)
    /\ Overlaps(py, Lo(geo.y, geo.scaledHeight), Hi(geo.y, geo.scaledHeight),
                den)

ImageLevelAt(geo, px, py, iw, ih, den) ==
    DepthImageLevel(SampleIndex(px, geo.x, geo.scaledWidth, iw, den),
                    SampleIndex(py, geo.y, geo.scaledHeight, ih, den))

(* main.ts 568-607: the two edge extensions.  Their source rectangle is one
   column wide and starts at row y of the image (sy = y); the part of it
   below the image is clipped away, and the destination with it, so the
   extension reaches down to row ch * (ih - y) / ih of the canvas. *)
EdgeRowsCovered(geo, py, ch, ih, den) ==
    /\ geo.y < ih * den
    /\ py * ih * den < ch * (ih * den - geo.y)

(* the source row taken without the stretch to the canvas height *)
EdgeSourceRowUnscaled(geo, py, ch, ih, den) == Clip(py, 0, ih - 1)

EdgeSourceRow(geo, py, ch, ih, den) ==
    Clip((2 * ch * geo.y + (2 * py + 1) * ih * den) \div (2 * ch * den),
         0, ih - 1)

LeftEdgeCovers(geo, px, py, ch, ih, den) ==
    /\ Overlaps(px, 0, geo.x + den, den)
    /\ EdgeRowsCovered(geo, py, ch, ih, den)

RightEdgeCovers(geo, px, py, ch, ih, den) ==
    /\ Overlaps(px, geo.x + geo.scaledWidth - den,
                geo.x + geo.scaledWidth - den + geo.x + den, den)
    /\ EdgeRowsCovered(geo, py, ch, ih, den)

(* main.ts 611-619: the gradient #555 - white - white - #555 with the white
   stops at x and canvasWidth - x, taken at the centre of column px, and
   its product with a level *)
GradientLevel(geo, px, cw, den) ==
    LET c == (2 * px + 1) * den
    IN  IF c < 2 * geo.x
        THEN 85 + (170 * c) \div (2 * geo.x)
        ELSE IF c > 2 * (cw * den - geo.x)
        THEN 85 + (170 * (2 * cw * den - c)) \div (2 * geo.x)
        ELSE 255

Multiply(level, by) == (level * by) \div 255

(* the layers that touch a pixel *)
CoverOf(mode, geo, px, py, ch, ih, den) ==
    (IF ImageCovers(geo, px, py, den) THEN {"image"} ELSE {})
    \cup (IF mode = "clamp" /\ LeftEdgeCovers(geo, px, py, ch, ih, den)
          THEN {"left"} ELSE {})
    \cup (IF mode = "clamp" /\ RightEdgeCovers(geo, px, py, ch, ih, den)
          THEN {"right"} ELSE {})

(* the calls in the order the code makes them *)
LevelOf(first, mode, geo, px, py, cw, ch, iw, ih, den) ==
    LET filled == ModeFill(mode, CallerFill(first, mode))
        drawn  == IF ImageCovers(geo, px, py, den)
                  THEN ImageLevelAt(geo, px, py, iw, ih, den) ELSE filled
        left   == IF mode = "clamp" /\ LeftEdgeCovers(geo, px, py, ch, ih, den)
                  THEN DepthImageLevel(0, EdgeSourceRow(geo, py, ch, ih, den))
                  ELSE drawn
        right  == IF mode = "clamp"
                     /\ RightEdgeCovers(geo, px, py, ch, ih, den)
                  THEN DepthImageLevel(iw - 1,
                                       EdgeSourceRow(geo, py, ch, ih, den))
                  ELSE left
    IN  IF mode = "clamp"
        THEN Multiply(right, GradientLevel(geo, px, cw, den))
        ELSE right

(* drawImageCentered on the filled canvas, read back with getImageData *)
DepthField(first, mode, cw, ch, iw, ih) ==
    LET geo == Geometry(mode, cw, ch, iw, ih)
        den == Den(iw, ih)
    IN  [px \in 0..(cw - 1), py \in 0..(ch - 1) |->
            [pixel |-> Grey(LevelOf(first, mode, geo, px, py, cw, ch, iw, ih,
                                    den)),
             cover |-> CoverOf(mode, geo, px, py, ch, ih, den)]]

(* appState.currentDepth: the PixelGrid over the rendered field
   (main.ts 283-290, 497-504) *)
FieldGrid(field, cw, ch) ==
    NewGrid(cw, ch, [px \in 0..(cw - 1), py \in 0..(ch - 1) |->
                        field[px, py].pixel])

(* The depth estimation of the chosen photo has arrived (main.ts 463-467)
   and is about to be rendered for the first time; the controls are hidden
   and appState is as declared. *)
DepthInit ==
    /\ canvas \in [width : FieldWidths, height : FieldHeights]
    /\ currentDepth = NoGrid
    /\ disparityScale = DefaultScale
    /\ autostereogramImageData = NoGrid
    /\ isProcessing = FALSE
    /\ selectedPattern = "marbles.jpg"
    /\ customPatternFile = Null
    /\ watermark = "LOU.WTF"
    /\ depthDisplayMode = "clamp"
    /\ originalDepthEstimation = Null
    /\ calls = << >>
    /\ timers = [o \in Owners |-> NoTimer]
    /\ guiVisible = FALSE
    /\ canvasHidden = TRUE
    /\ fileDialog = FALSE
    /\ photo = "estimating"
    /\ dropped = 0
    /\ debounced = [o \in Owners |-> NoEvents]
    /\ inputs = 0
    /\ patternKind = DefaultPattern
    /\ minDisparity = -1
    /\ maxDisparity = -1
    /\ pattern = NoGrid
    /\ output = NoGrid
    /\ cleared = NoGrid
    /\ loopX = 0
    /\ loopY = 0
    /\ fillY = 0
    /\ accesses = {}
    /\ pc = "idle"
    /\ grid = NoGrid
    /\ lastCall = NoCall
    /\ PatternIdle
    /\ held = {}
    /\ PhotoIdle
    /\ \E iw \in ImageSides, ih \in ImageSides :
          depthRender = [phase |-> "estimated",
                         image |-> [width |-> iw, height |-> ih]]

(* main.ts 469-504: the first rendering, in the handler of the photo; the
   regeneration that follows it (main.ts 507) is followed in Spec *)
FirstRender ==
    /\ depthRender.phase = "estimated"
    /\ originalDepthEstimation' = "depth"
    /\ depthRender' =
          [phase |-> "first",
           image |-> depthRender.image,
           mode  |-> depthDisplayMode,
           field |-> DepthField(TRUE, depthDisplayMode,
                                canvas.width, canvas.height,
                                depthRender.image.width,
                                depthRender.image.height)]
    /\ currentDepth' = FieldGrid(depthRender'.field, canvas.width,
                                 canvas.height)
    /\ UNCHANGED << canvas, disparityScale, autostereogramImageData,
                    isProcessing, selectedPattern, customPatternFile,
                    watermark, depthDisplayMode, calls, timers, guiVisible,
                    canvasHidden, fileDialog, photo, dropped, debounced,
                    inputs, synthLocals, held, photoVars, grid, lastCall,
                    patternVars >>

(* main.ts 384-389, 231-236, 246-291: the Depth Style dropdown changes and
   the depth field is rendered again; the regeneration that follows it
   (main.ts 239) is followed in Spec *)
DepthStyleRendered(mode) ==
    /\ depthRender.phase \in {"first", "again"}
    /\ mode # depthDisplayMode
    /\ depthDisplayMode' = mode
    /\ depthRender' =
          [phase |-> "again",
           image |-> depthRender.image,
           mode  |-> mode,
           field |-> DepthField(FALSE, mode, canvas.width, canvas.height,
                                depthRender.image.width,
                                depthRender.image.height)]
    /\ currentDepth' = FieldGrid(depthRender'.field, canvas.width,
                                 canvas.height)
    /\ UNCHANGED << canvas, disparityScale, autostereogramImageData,
                    isProcessing, selectedPattern, customPatternFile,
                    watermark, originalDepthEstimation, calls, timers,
                    guiVisible, canvasHidden, fileDialog, photo, dropped,
                    debounced, inputs, synthLocals,
                    held, photoVars, grid, lastCall,
                    patternVars >>

DepthNext ==
    \/ FirstRender
    \/ \E mode \in DepthDisplayModes : DepthStyleRendered(mode)

SpecDepth == DepthInit /\ [][DepthNext]_vars

(***************************************************************************)
(* Properties of the depth rendering (SpecDepth).                          *)
(***************************************************************************)
Rendered == depthRender.phase \in {"first", "again"}

FieldCells == (0..(canvas.width - 1)) \X (0..(canvas.height - 1))

Uncovered(c) == depthRender.field[c[1], c[2]].cover = {}

(* C20 -- Depth background per policy: in a rendered depth field, first
   render included, every pixel that neither the scaled depth image nor
   (under clamp) an edge extension touches is solid black under clamp and
   popout and solid white under cutout. *)
C20_BackgroundPerPolicy ==
    Rendered =>
        \A c \in FieldCells :
            Uncovered(c) =>
                GridGet(currentDepth, c[1], c[2]) =
                    Grey(IF depthRender.mode = "cutout" THEN White ELSE Black)

(* a first render that leaves pixels uncovered beside covered ones *)
C20_Witness ==
    /\ depthRender.phase = "first"
    /\ \E c \in FieldCells : Uncovered(c)
    /\ \E c \in FieldCells : "image" \in depthRender.field[c[1], c[2]].cover

(* main.ts 544-546: scale = min(scaleX, scaleY) is positive exactly when
   imageWidth * scale is *)
ScaleOf(mode, cw, ch, iw, ih) == Geometry(mode, cw, ch, iw, ih).scaledWidth

RenderStep == depthRender' # depthRender

(* C21 -- Degenerate input is rejected: a rendering whose uniform scale
   factor is not strictly positive ends in an error outcome and produces no
   depth grid (appState.currentDepth stays as it was). *)
C21_DegenerateScaleRejected ==
    [][(/\ RenderStep
        /\ ScaleOf(depthDisplayMode', canvas.width, canvas.height,
                   depthRender.image.width, depthRender.image.height) <= 0)
       => /\ depthRender'.phase = "error"
          /\ currentDepth' = currentDepth]_vars

(* the geometry of the rendering held in depthRender *)
RenderGeometry ==
    Geometry(depthRender.mode, canvas.width, canvas.height,
             depthRender.image.width, depthRender.image.height)

RenderDen == Den(depthRender.image.width, depthRender.image.height)

(* clamp, and the scaled image leaves a margin on each side *)
ClampMargins ==
    /\ Rendered
    /\ depthRender.mode = "clamp"
    /\ RenderGeometry.x > 0

FieldRows == 0..(canvas.height - 1)

(* column ix of the depth image as the scaled image shows it in row py of
   the canvas *)
ScaledImageColumn(ix, py) ==
    DepthImageLevel(ix, SampleIndex(py, RenderGeometry.y,
                                    RenderGeometry.scaledHeight,
                                    depthRender.image.height, RenderDen))

(* the level of the fade half a pixel inside either border of the canvas:
   #555 at the border, white from the image's edge inwards *)
EdgeFade ==
    IF RenderDen < 2 * RenderGeometry.x
    THEN 85 + (170 * RenderDen) \div (2 * RenderGeometry.x)
    ELSE 255

(* the right extension, x + 1 wide, ends left of column 1 only on canvases
   narrower than 4 *)
RightExtensionClearOfColumn0 ==
    (canvas.width - 1) * RenderDen - RenderGeometry.x >= RenderDen

(* C22 as stated -- Clamp edge extension: under clamp with horizontal
   margins, column 0 of the finished depth field equals the leftmost column
   of the scaled depth image and column W-1 its rightmost column, row by
   row, and neither is left from the background fill. *)
C22_ClampEdgeExtension ==
    ClampMargins =>
        \A py \in FieldRows :
            /\ depthRender.field[0, py].pixel = Grey(ScaledImageColumn(0, py))
            /\ depthRender.field[canvas.width - 1, py].pixel =
                  Grey(ScaledImageColumn(depthRender.image.width - 1, py))
            /\ depthRender.field[0, py].cover # {}
            /\ depthRender.field[canvas.width - 1, py].cover # {}

(* C22 as amended -- under clamp with horizontal margins, column W-1 of the
   finished depth field is drawn by the right edge extension and holds the
   rightmost column of the scaled depth image, row by row, multiplied by
   the level of the edge gradient at that column; column 0 is drawn by the
   left edge extension and holds the leftmost column multiplied by the same
   level, wherever the right extension does not reach column 0. *)
C22_ClampEdgeExtensionFaded ==
    ClampMargins =>
        \A py \in FieldRows :
            /\ "right" \in depthRender.field[canvas.width - 1, py].cover
            /\ GridGet(currentDepth, canvas.width - 1, py) =
                  Grey(Multiply(ScaledImageColumn(depthRender.image.width - 1,
                                                  py), EdgeFade))
            /\ "left" \in depthRender.field[0, py].cover
            /\ RightExtensionClearOfColumn0 =>
                  GridGet(currentDepth, 0, py) =
                      Grey(Multiply(ScaledImageColumn(0, py), EdgeFade))

(* a clamp rendering with margins wider than half a pixel, of a depth image
   with several columns and rows on a canvas of another height *)
C22_Witness ==
    /\ ClampMargins
    /\ EdgeFade < 255
    /\ depthRender.image.width > 1
    /\ depthRender.image.height > 1
    /\ depthRender.image.height # canvas.height
    /\ canvas.width >= 4

(***************************************************************************)
(* The gradient of the procedural patterns (main.ts 727-754) and the       *)
(* colours the application passes to it (part_001 47-108).                 *)
(*                                                                         *)
(* A hue is an integer number of steps of 1 / HueUnit degree; saturation   *)
(* and lightness are per cent; the offset of a colour stop is counted in   *)
(* halves (0, 1, 2 for 0, 0.5, 1).                                         *)
(***************************************************************************)
FullTurn == 360 * HueUnit

Hues == 0..(FullTurn - 1)            \* Math.random() * 360

Saturations == {80, 90}              \* 80 + Math.random() * 20

Abs(v) == IF v < 0 THEN 0 - v ELSE v

(* `hsl(h, s%, l%)` *)
Hsl(h, s, l) == [hue |-> h, saturation |-> s, lightness |-> l]

(* part_001 47-95: hslToHex, the three channels as numbers 0..255.  With
   c = C / 10000, x = c * K / T and m = l / 100 - c / 2 every channel is a
   multiple of 1 / (20000 * T); Math.round rounds halves up.  The
   arithmetic here is exact: where a channel is exactly a half (hues 55,
   65, 175, 185, 245 and 355 at 70%, 60%) the doubles of the code fall
   just below it and give one level less. *)
HslToHex(h, s, l) ==
    LET T     == 60 * HueUnit
        C     == (100 - Abs(2 * l - 100)) * s
        K     == T - Abs((h % (2 * T)) - T)
        c     == 2 * C * T
        x     == 2 * C * K
        m     == (200 * l - C) * T
        D     == 20000 * T
        Round255(v) == (2 * 255 * (v + m) + D) \div (2 * D)
        rgb   == IF 0 <= h /\ h < T THEN << c, x, 0 >>
                 ELSE IF T <= h /\ h < 2 * T THEN << x, c, 0 >>
                 ELSE IF 2 * T <= h /\ h < 3 * T THEN << 0, c, x >>
                 ELSE IF 3 * T <= h /\ h < 4 * T THEN << 0, x, c >>
                 ELSE IF 4 * T <= h /\ h < 5 * T THEN << x, 0, c >>
                 ELSE IF 5 * T <= h /\ h < 6 * T THEN << c, 0, x >>
                 ELSE << 0, 0, 0 >>
    IN  << Round255(rgb[1]), Round255(rgb[2]), Round255(rgb[3]) >>

(* a colour made by hslToHex, with the arguments it was made from *)
HexColor(h, s, l) == [hex |-> HslToHex(h, s, l), from |-> Hsl(h, s, l)]

(* the second and third hue without the remainder *)
TurnedUnwrapped(h, by) == h + by * HueUnit

(* main.ts 745-746, part_001 105-106: (hue + by) % 360 *)
Turned(h, by) == (h + by * HueUnit) % FullTurn

(* part_001 98-108 *)
GenerateRandomGradientColors(baseHue) ==
    [color1 |-> HexColor(baseHue, 70, 60),
     color2 |-> HexColor(Turned(baseHue, 120), 80, 80),
     color3 |-> HexColor(Turned(baseHue, 240), 70, 60)]

ColorStop(offset, color) == [offset |-> offset, color |-> color]

(* main.ts 727-754: colors is NoColors when the three colours are not given;
   hue and sat stand for the values Math.random() yields *)
CreateGradient(colors, hue, sat) ==
    IF colors # NoColors
    THEN << ColorStop(0, colors.color1), ColorStop(1, colors.color2),
            ColorStop(2, colors.color3) >>
    ELSE << ColorStop(0, Hsl(hue, sat[1], 50)),
            ColorStop(1, Hsl(Turned(hue, 120), sat[2], 90)),
            ColorStop(2, Hsl(Turned(hue, 240), sat[3], 50)) >>

(* everything outside the pattern generators, as the page loads it *)
OutsideGenerators ==
    /\ canvas = [width |-> AppWidth, height |-> AppHeight]
    /\ currentDepth = NoGrid
    /\ disparityScale = DefaultScale
    /\ autostereogramImageData = NoGrid
    /\ AppStateInit
    /\ patternKind = DefaultPattern
    /\ minDisparity = -1
    /\ maxDisparity = -1
    /\ pattern = NoGrid
    /\ output = NoGrid
    /\ cleared = NoGrid
    /\ loopX = 0
    /\ loopY = 0
    /\ fillY = 0
    /\ accesses = {}
    /\ pc = "idle"
    /\ grid = NoGrid
    /\ lastCall = NoCall
    /\ depthRender = NoRender
    /\ held = {}
    /\ PhotoIdle

GradientInit ==
    /\ OutsideGenerators
    /\ ctx = [op |-> "getContext"]
    /\ gradientColors = NoColors

(* part_001 111, 127-129: the colours of appState, drawn once when the
   module loads *)
InitialGradientColors(baseHue) ==
    /\ gradientColors = NoColors
    /\ ctx.op = "getContext"
    /\ gradientColors' = GenerateRandomGradientColors(baseHue)
    /\ UNCHANGED << canvas, currentDepth, disparityScale,
                    autostereogramImageData, appOnly, synthLocals,
                    held, photoVars, grid,
                    lastCall, depthRender, ctx >>

(* main.ts 847, 877, 938 with the colours of appState (part_001 163-179) *)
GradientFromColors ==
    /\ gradientColors # NoColors
    /\ ctx.op = "getContext"
    /\ ctx' = [op |-> "createGradient",
               fillStyle |-> CreateGradient(gradientColors, 0,
                                            << 0, 0, 0 >>)]
    /\ UNCHANGED << canvas, currentDepth, disparityScale,
                    autostereogramImageData, appOnly, synthLocals,
                    held, photoVars, grid,
                    lastCall, depthRender, gradientColors >>

(* main.ts 847, 877, 938 without colours: the random branch *)
GradientFromRandomHue(hue, sat) ==
    /\ gradientColors = NoColors
    /\ ctx.op = "getContext"
    /\ ctx' = [op |-> "createGradient",
               fillStyle |-> CreateGradient(NoColors, hue, sat)]
    /\ UNCHANGED << canvas, currentDepth, disparityScale,
                    autostereogramImageData, appOnly, synthLocals,
                    held, photoVars, grid,
                    lastCall, depthRender, gradientColors >>

GradientNext ==
    \/ \E baseHue \in Hues : InitialGradientColors(baseHue)
    \/ GradientFromColors
    \/ \E hue \in Hues, sat \in Saturations \X Saturations \X Saturations :
          GradientFromRandomHue(hue, sat)

SpecGradient == GradientInit /\ [][GradientNext]_vars

(***************************************************************************)
(* Properties of the gradient (SpecGradient).                              *)
(***************************************************************************)
(* the hue a colour is derived from *)
HueOf(color) ==
    IF "from" \in DOMAIN color THEN color.from.hue ELSE color.hue

(* degrees between two hues, the short way round the circle *)
HueDistance(a, b) ==
    IF Abs(a - b) <= FullTurn - Abs(a - b) THEN Abs(a - b)
    ELSE FullTurn - Abs(a - b)

StopHues == [i \in 1..Len(ctx.fillStyle) |-> HueOf(ctx.fillStyle[i].color)]

(* C23 -- Gradient hue spacing: a gradient whose colours are derived from
   a random base hue has three stops, at 0, 0.5 and 1; their hues lie in
   [0, 360), the first is the base hue, the second lies 120 degrees and the
   third 240 degrees further round the circle, and every pair is exactly
   120 degrees apart. *)
C23_GradientHueSpacing ==
    ctx.op = "createGradient" =>
        /\ Len(ctx.fillStyle) = 3
        /\ \A i \in 1..3 : ctx.fillStyle[i].offset = i - 1
        /\ \A i \in 1..3 : StopHues[i] \in Hues
        /\ \A i \in 2..3 :
              \E k \in {0, 1} :
                 StopHues[i] = StopHues[1] + (i - 1) * 120 * HueUnit
                               - k * FullTurn
        /\ \A i, j \in 1..3 :
              i # j => HueDistance(StopHues[i], StopHues[j]) = 120 * HueUnit

(* gradients whose second or third hue passed 360: one made with random
   colours, one made from the colours of appState *)
C23_Witness ==
    /\ ctx.op = "createGradient"
    /\ gradientColors = NoColors
    /\ StopHues[2] < StopHues[1]

C23_WitnessColors ==
    /\ ctx.op = "createGradient"
    /\ gradientColors # NoColors
    /\ StopHues[3] < StopHues[2]
    /\ StopHues[1] < StopHues[2]

(***************************************************************************)
(* wrapped and the elements of the confetti and sprinkles strips           *)
(* (main.ts 760-813, 887-915, 947-985).                                    *)
(*                                                                         *)
(* A shape is the set of pixels a path covers, in the coordinates of the   *)
(* draw function; drawing it paints the pixels of the strip that the shape *)
(* covers after the translation of the context.  Positions, radius, length *)
(* and thickness are whole pixels.                                         *)
(***************************************************************************)
StripSides == 2..MaxStrip

Radii == 1..MaxRadius

Thicknesses == 1..MaxThickness

ShadowOffset == 2

(* x2 - x1 and y2 - y1 of a sprinkle: cos(angle) * length, sin(angle) * length *)
Displacements ==
    { d \in ((0 - MaxLength)..MaxLength) \X ((0 - MaxLength)..MaxLength) :
         d # << 0, 0 >> }

(* arc(x, y, radius, 0, 2 * Math.PI) and fill() *)
Disc(x, y, radius) ==
    { p \in ((x - radius)..(x + radius)) \X ((y - radius)..(y + radius)) :
         (p[1] - x) * (p[1] - x) + (p[2] - y) * (p[2] - y)
            <= radius * radius }

Least(a, b) == IF a <= b THEN a ELSE b
Most(a, b) == IF a <= b THEN b ELSE a

(* moveTo(x1, y1), lineTo(x2, y2) and stroke() with lineCap 'round': the
   pixels no further than thickness / 2 from the segment *)
Capsule(x1, y1, x2, y2, thickness) ==
    LET dx == x2 - x1
        dy == y2 - y1
        l2 == dx * dx + dy * dy
        Near(p) ==
            LET t  == Clip((p[1] - x1) * dx + (p[2] - y1) * dy, 0, l2)
                ex == (p[1] - x1) * l2 - t * dx
                ey == (p[2] - y1) * l2 - t * dy
            IN  4 * (ex * ex + ey * ey) <= thickness * thickness * l2 * l2
    IN  { p \in ((Least(x1, x2) - thickness)..(Most(x1, x2) + thickness))
                \X ((Least(y1, y2) - thickness)..(Most(y1, y2) + thickness)) :
             Near(p) }

(* the pixels of the strip *)
Strip(c) == (0..(c.width - 1)) \X (0..(c.height - 1))

(* ctx.save(), ctx.translate(dx, dy), ctx.restore() *)
Save(c) == [c EXCEPT !.stack = Append(@, c.transform)]

Translate(c, dx, dy) ==
    [c EXCEPT !.transform = << @[1] + dx, @[2] + dy >>]

Restore(c) ==
    IF c.stack = << >> THEN c
    ELSE [c EXCEPT !.transform = c.stack[Len(c.stack)],
                   !.stack = SubSeq(c.stack, 1, Len(c.stack) - 1)]

(* drawFn(ctx): the shape is painted where the current transform puts it;
   the call is noted with the transform and the number of saved states *)
DrawFn(c, shape) ==
    LET painted == { << p[1] + c.transform[1], p[2] + c.transform[2] >> :
                        p \in shape } \cap Strip(c)
    IN  [c EXCEPT !.draws = Append(@, [transform |-> c.transform,
                                       saved |-> Len(c.stack)]),
                  !.covered = @ \cup painted,
                  !.twice = @ \cup (c.covered \cap painted)]

(* a translated call without its restore *)
BracketedUnrestored(c, dx, dy, shape) ==
    DrawFn(Translate(Save(c), dx, dy), shape)

(* main.ts 770-773 and the seven blocks like it *)
Bracketed(c, dx, dy, shape) ==
    Restore(DrawFn(Translate(Save(c), dx, dy), shape))

(* the four edge wraps without the four corner wraps *)
WrappedEdgesOnly(c, width, height, shape) ==
    LET c0 == DrawFn(c, shape)
        c1 == Bracketed(c0, width, 0, shape)
        c2 == Bracketed(c1, 0 - width, 0, shape)
        c3 == Bracketed(c2, 0, height, shape)
    IN  Bracketed(c3, 0, 0 - height, shape)

(* main.ts 760-813 *)
Wrapped(c, width, height, shape) ==
    LET c0 == DrawFn(c, shape)
        c1 == Bracketed(c0, width, 0, shape)
        c2 == Bracketed(c1, 0 - width, 0, shape)
        c3 == Bracketed(c2, 0, height, shape)
        c4 == Bracketed(c3, 0, 0 - height, shape)
        c5 == Bracketed(c4, width, height, shape)
        c6 == Bracketed(c5, 0 - width, height, shape)
        c7 == Bracketed(c6, width, 0 - height, shape)
    IN  Bracketed(c7, 0 - width, 0 - height, shape)

(* the context when a call of wrapped starts: nothing noted yet *)
Fresh(c, op, element) ==
    [c EXCEPT !.op = op, !.element = element, !.draws = << >>,
              !.covered = {}, !.twice = {}]

Circle(x, y, radius) == [x |-> x, y |-> y, radius |-> radius]

Sprinkle(x1, y1, d, thickness) ==
    [x1 |-> x1, y1 |-> y1, x2 |-> x1 + d[1], y2 |-> y1 + d[2],
     thickness |-> thickness]

(* the shape each of the four draw functions makes of its element *)
ShapeOf(op, e) ==
    IF op = "confettiShadow"
    THEN Disc(e.x + ShadowOffset, e.y + ShadowOffset, e.radius)
    ELSE IF op = "confettiCircle" THEN Disc(e.x, e.y, e.radius)
    ELSE IF op = "sprinkleShadow"
    THEN Capsule(e.x1 + ShadowOffset, e.y1 + ShadowOffset,
                 e.x2 + ShadowOffset, e.y2 + ShadowOffset, e.thickness)
    ELSE Capsule(e.x1, e.y1, e.x2, e.y2, e.thickness)

(* main.ts 870-884, 931-945: the strip of either generator with its
   background painted; width and height are 256 and 1024 in the code,
   here any sides with width <= height *)
WrapInit ==
    /\ OutsideGenerators
    /\ gradientColors = NoColors
    /\ \E kind \in {"confetti", "sprinkles"}, w \in StripSides,
          h \in StripSides :
          /\ w <= h
          /\ ctx = [op |-> "fillRect", generator |-> kind, width |-> w,
                 height |-> h, transform |-> << 0, 0 >>,
                 stack |-> << >>, element |-> Null, draws |-> << >>,
                 covered |-> {}, twice |-> {}]

WrapUnchanged ==
    UNCHANGED << canvas, currentDepth, disparityScale,
                 autostereogramImageData, appOnly, synthLocals,
                 held, photoVars, grid,
                 lastCall, depthRender, gradientColors >>

(* main.ts 887-906: a circle is drawn at random and its shadow is drawn.
   One pass of the loop is followed; every pass starts with the transform
   and the saved states the one before it started with. *)
ConfettiShadow(x, y, radius) ==
    /\ ctx.generator = "confetti"
    /\ ctx.op = "fillRect"
    /\ ctx' = Wrapped(Fresh(ctx, "confettiShadow", Circle(x, y, radius)),
                      ctx.width, ctx.height,
                      ShapeOf("confettiShadow", Circle(x, y, radius)))
    /\ WrapUnchanged

(* main.ts 909-914: the circle itself *)
ConfettiCircle ==
    /\ ctx.op = "confettiShadow"
    /\ ctx' = Wrapped(Fresh(ctx, "confettiCircle", ctx.element),
                      ctx.width, ctx.height,
                      ShapeOf("confettiCircle", ctx.element))
    /\ WrapUnchanged

(* main.ts 947-973 *)
SprinkleShadow(x1, y1, d, thickness) ==
    /\ ctx.generator = "sprinkles"
    /\ ctx.op = "fillRect"
    /\ ctx' = Wrapped(Fresh(ctx, "sprinkleShadow",
                            Sprinkle(x1, y1, d, thickness)),
                      ctx.width, ctx.height,
                      ShapeOf("sprinkleShadow",
                              Sprinkle(x1, y1, d, thickness)))
    /\ WrapUnchanged

(* main.ts 976-984 *)
SprinkleLine ==
    /\ ctx.op = "sprinkleShadow"
    /\ ctx' = Wrapped(Fresh(ctx, "sprinkleLine", ctx.element),
                      ctx.width, ctx.height,
                      ShapeOf("sprinkleLine", ctx.element))
    /\ WrapUnchanged

WrapNext ==
    \/ \E x \in 0..(ctx.width - 1), y \in 0..(ctx.height - 1),
          radius \in Radii : ConfettiShadow(x, y, radius)
    \/ ConfettiCircle
    \/ \E x1 \in 0..(ctx.width - 1), y1 \in 0..(ctx.height - 1),
          d \in Displacements, thickness \in Thicknesses :
          SprinkleShadow(x1, y1, d, thickness)
    \/ SprinkleLine

SpecWrap == WrapInit /\ [][WrapNext]_vars

(***************************************************************************)
(* Properties of wrapped and of the strips (SpecWrap).                     *)
(***************************************************************************)
WrapOps == {"confettiShadow", "confettiCircle", "sprinkleShadow",
            "sprinkleLine"}

(* the nine translations, from the transform in force when wrapped starts *)
NineTranslations(c) ==
    { << c.transform[1] + dx, c.transform[2] + dy >> :
         dx \in {0, c.width, 0 - c.width},
         dy \in {0, c.height, 0 - c.height} }

(* C24 -- wrapped invokes drawFn exactly 9 times, once for each translation
   (dx, dy) with dx in {0, +width, -width} and dy in {0, +height, -height};
   every translated call is made inside a save that is restored after it,
   and when wrapped returns the transform and the saved states of the
   context are those it started with. *)
C24_NineBracketedDraws ==
    [][ctx'.op \in WrapOps =>
          /\ Len(ctx'.draws) = 9
          /\ { ctx'.draws[k].transform : k \in 1..9 } = NineTranslations(ctx)
          /\ Cardinality(NineTranslations(ctx)) = 9
          /\ \A k \in 1..9 :
                ctx'.draws[k].saved =
                    IF ctx'.draws[k].transform = ctx.transform
                    THEN Len(ctx.stack) ELSE Len(ctx.stack) + 1
          /\ ctx'.transform = ctx.transform
          /\ ctx'.stack = ctx.stack]_vars

(* wrapped has returned from drawing a circle over its shadow *)
C24_Witness ==
    /\ ctx.op = "confettiCircle"
    /\ Len(ctx.draws) = 9
    /\ ctx.covered # {}

(* the element with its shadow *)
WholeElement ==
    IF ctx.generator = "confetti"
    THEN ShapeOf("confettiShadow", ctx.element)
            \cup ShapeOf("confettiCircle", ctx.element)
    ELSE ShapeOf("sprinkleShadow", ctx.element)
            \cup ShapeOf("sprinkleLine", ctx.element)

Span(values) ==
    (CHOOSE a \in values : \A b \in values : b <= a)
       - (CHOOSE a \in values : \A b \in values : a <= b) + 1

(* the element, shadow included, is narrower and lower than the strip *)
Fits ==
    /\ Span({ p[1] : p \in WholeElement }) < ctx.width
    /\ Span({ p[2] : p \in WholeElement }) < ctx.height

ToroidalWrap(shape, width, height) ==
    { << p[1] % width, p[2] % height >> : p \in shape }

DrawnShape == ShapeOf(ctx.op, ctx.element)

(* C25 -- Toroidal seamlessness: for a confetti or sprinkles element
   anchored inside the strip and, shadow included, smaller than the strip
   in both directions, the strip pixels painted by the 9 translated draws
   are exactly the element's toroidal wrap, each painted once; so the part
   of the element that lies in column stripWidth shows in column 0. *)
C25_ToroidalSeamlessness ==
    (ctx.op \in WrapOps /\ Fits) =>
        /\ ctx.covered = ToroidalWrap(DrawnShape, ctx.width, ctx.height)
        /\ ctx.twice = {}
        /\ \A p \in DrawnShape :
              (p[1] = ctx.width /\ p[2] \in 0..(ctx.height - 1))
                 => << 0, p[2] >> \in ctx.covered

(* an element that fits and reaches into the strip beyond the corner *)
C25_Witness ==
    /\ ctx.op \in WrapOps
    /\ Fits
    /\ \E p \in DrawnShape : p[1] >= ctx.width /\ p[2] >= ctx.height
    /\ \E p \in DrawnShape : p[1] = ctx.width /\ p[2] < ctx.height

(***************************************************************************)
(* The order of reads and writes in the pixel loop (SpecSynth).            *)
(***************************************************************************)
(* an iteration of the pixel loop, at column loopX of row loopY *)
LoopStep == pc = "loop" /\ << loopX, loopY >>' # << loopX, loopY >>

OutputReads(from, to) ==
    { a \in accesses' : a.grid = "output" /\ a.x \in from..to }

(* C26 as stated -- Left-to-right dependency: at every iteration
   0 <= offset < minDisparity; in the self-reference branch the read
   targets a column in [x - minDisparity, x - 1], written earlier in the
   same regeneration; the finished output is the same whatever the output
   grid held before the loop. *)
C26_LeftToRightDependency ==
    [][/\ LoopStep =>
            /\ 0 <= SpecOffset(loopX, loopY)
            /\ SpecOffset(loopX, loopY) < minDisparity
            /\ loopX >= minDisparity =>
                  OutputReads(loopX - minDisparity, loopX - 1) # {}
       /\ pc' = "done" => output' = cleared']_vars

(* the largest offset, floor((maxDisparity - minDisparity) * 1.75), reaches
   minDisparity *)
OffsetReachesMinDisparity ==
    (maxDisparity - minDisparity) * MaxScale >= 100 * minDisparity

SelfReadWidths == {10, 11, 12, 13, 25, 26}

(* C26 as amended -- at every iteration 0 <= offset <= minDisparity, and a
   read of the self-reference branch targets a column in
   [x - minDisparity, x].  Unless the width is one of 10..13, 25 and 26,
   the widths at which floor((maxDisparity - minDisparity) * 1.75) reaches
   minDisparity, the offset is below minDisparity, the read targets a
   column in [x - minDisparity, x - 1] and the finished output is the same
   whatever the output grid held before the loop. *)
C26_LeftToRightOrSelf ==
    [][/\ LoopStep =>
            /\ 0 <= SpecOffset(loopX, loopY)
            /\ SpecOffset(loopX, loopY) <= minDisparity
            /\ OffsetReachesMinDisparity <=> canvas.width \in SelfReadWidths
            /\ loopX >= minDisparity =>
                  /\ \A a \in accesses' :
                        a.grid = "output" =>
                           a.x \in (loopX - minDisparity)..loopX
                  /\ canvas.width \notin SelfReadWidths =>
                        /\ SpecOffset(loopX, loopY) < minDisparity
                        /\ OutputReads(loopX - minDisparity, loopX - 1) # {}
       /\ (pc' = "done" /\ canvas.width \notin SelfReadWidths) =>
             output' = cleared']_vars

(* an iteration has read a column written earlier, between x - minDisparity
   and x - 1, at the largest scale and depth *)
C26_Witness ==
    /\ pc = "loop"
    /\ canvas.width \notin SelfReadWidths
    /\ disparityScale = MaxScale
    /\ \E a, b \in accesses :
          /\ a.grid = "output"
          /\ b.grid = "output"
          /\ a.x >= minDisparity
          /\ a.x - b.x \in 1..(minDisparity - 1)

(***************************************************************************)
(* One regeneration after another (main.ts 56-162, 308-315): the slider is *)
(* moved after a regeneration has ended and the next one starts; the       *)
(* raster stored in appState is the one the previous regeneration made.    *)
(***************************************************************************)
RasterInit ==
    /\ SynthInit
    /\ canvas.width <= AppWidth

(* main.ts 308-315, 56-60: generateAutostereogram is called again *)
SliderRegenerates(v) ==
    /\ pc = "done"
    /\ v # disparityScale
    /\ disparityScale' = v
    /\ pc' = "start"
    /\ UNCHANGED << canvas, currentDepth, autostereogramImageData, appOnly,
                    patternKind, minDisparity, maxDisparity, pattern, output,
                    cleared, loopX, loopY, fillY, accesses, unitVars >>

RasterNext ==
    \/ SynthNext
    \/ \E v \in ScaleChoices : SliderRegenerates(v)

SpecRaster == RasterInit /\ [][RasterNext]_vars

(* the column and row after (x, y) in the order of the loops *)
NextPixel(x, y) ==
    IF x + 1 < canvas.width THEN << x + 1, y >> ELSE << 0, y + 1 >>

(* C27 -- The output is never mutated incrementally: the pixel loop works
   on a grid of its own that starts as the tiling made for this
   regeneration, writes pixel (x, y) and no other at each iteration, with
   (x, y) running from (0, 0) through the rows in increasing y and the
   columns in increasing x; the raster in appState changes only when the
   loop has passed the last row, to the finished grid, and stays as it is
   while a later regeneration runs. *)
C27_FreshFullRaster ==
    [][/\ (pc # "loop" /\ pc' = "loop") =>
             /\ << loopX', loopY' >> = << 0, 0 >>
             /\ output' = FillFromStrip(pattern, canvas.width, canvas.height,
                                        minDisparity)
       /\ LoopStep =>
             /\ << loopX', loopY' >> = NextPixel(loopX, loopY)
             /\ \A x \in Columns, y \in Rows :
                   << x, y >> # << loopX, loopY >> =>
                      GridGet(output', x, y) = GridGet(output, x, y)
       /\ autostereogramImageData' # autostereogramImageData =>
             /\ pc = "loop"
             /\ pc' = "done"
             /\ << loopX, loopY >> = << 0, canvas.height >>
             /\ autostereogramImageData' = output
       /\ pc' # "done" =>
             autostereogramImageData' = autostereogramImageData]_vars

(* a second regeneration is half way through its loop: its grid differs
   from the raster the first one stored *)
C27_Witness ==
    /\ pc = "loop"
    /\ autostereogramImageData # NoGrid
    /\ loopX > minDisparity
    /\ output # autostereogramImageData
    /\ \E x \in Columns : x < loopX /\ GridGet(output, x, loopY) # O(x, loopY)

(***************************************************************************)
(* The parameters of one regeneration (SpecParams): the handlers of the    *)
(* controls run while the pattern image of a regeneration is awaited.      *)
(***************************************************************************)
(* the call that generateAutostereogram records for a pattern source *)
CallFor(file, selected) ==
    [patternImageUrl |-> PatternImageUrl(file, selected),
     minDisparity |-> MinDisparityOf(canvas.width),
     maxDisparity |-> MaxDisparityOf(canvas.width)]

(* main.ts 342-352, 56-85: the photo is loaded and its first autostereogram
   is shown; the Pattern dropdown has just been set to another preset, and
   the regeneration that this started awaits its pattern image. *)
ParamsInit ==
    /\ canvas = [width |-> AppWidth, height |-> AppHeight]
    /\ disparityScale = DefaultScale
    /\ depthDisplayMode = "clamp"
    /\ currentDepth = RenderDepth("clamp")
    /\ originalDepthEstimation = "depth"
    /\ watermark = "LOU.WTF"
    /\ customPatternFile = Null
    /\ selectedPattern \in PresetPatterns \ {"marbles.jpg"}
    /\ autostereogramImageData =
          Synthesize(CallFor(Null, "marbles.jpg"), currentDepth,
                     disparityScale, watermark)
    /\ isProcessing = TRUE
    /\ canvasHidden = TRUE
    /\ calls = << CallFor(customPatternFile, selectedPattern) >>
    /\ timers = [o \in Owners |-> NoTimer]
    /\ debounced = [o \in Owners |-> NoEvents]
    /\ guiVisible = TRUE
    /\ fileDialog = FALSE
    /\ photo = "shown"
    /\ dropped = 0
    /\ inputs = 0
    /\ patternKind = DefaultPattern
    /\ minDisparity = -1
    /\ maxDisparity = -1
    /\ pattern = NoGrid
    /\ output = NoGrid
    /\ cleared = NoGrid
    /\ loopX = 0
    /\ loopY = 0
    /\ fillY = 0
    /\ accesses = {}
    /\ pc = "idle"
    /\ grid = NoGrid
    /\ lastCall = NoCall
    /\ depthRender = NoRender
    /\ PatternIdle
    /\ held = {Params}
    /\ PhotoIdle

(* what the controls and the pattern load can do once a photo is shown *)
ParamsNext ==
    \/ \E v \in ScaleChoices : SliderChanged(v)
    \/ \E text \in Watermarks : WatermarkChanged(text)
    \/ Tick
    \/ \E o \in Owners : TimerFired(o)
    \/ \E p \in PatternChoices : PatternSelected(p)
    \/ \E f \in Files : FileChosen(f)
    \/ FileDialogCancelled
    \/ \E mode \in DepthDisplayModes : DepthStyleChanged(mode)
    \/ \E i \in 1..Len(calls) : PatternLoaded(i)
    \/ \E i \in 1..Len(calls) : PatternLoadFailed(i)

SpecParams == ParamsInit /\ [][ParamsNext]_vars

(* the values that the frame of activation i is computed from: the pattern
   source as the activation noted it before its await (main.ts 78-85), the
   watermark, the scale and the depth grid as they are when the image has
   arrived (main.ts 96-98, 134-146) *)
UsedBy(i) ==
    [url            |-> calls[i].patternImageUrl,
     watermark      |-> watermark,
     disparityScale |-> disparityScale,
     depth          |-> currentDepth]

(* C28: whenever a regeneration publishes its frame, the pattern source,
   the watermark, the disparityScale and the depth grid that the frame is
   computed from are values that all held at one same instant of that
   regeneration. *)
C28_ConsistentParameters ==
    [][\A i \in 1..Len(calls) : PatternLoaded(i) => UsedBy(i) \in held]_vars

(***************************************************************************)
(* The 'custom' entry of the Pattern dropdown (Spec).                      *)
(***************************************************************************)
(* patternNames['Upload...'] = 'custom' (main.ts 340): the value of the
   dropdown entry, handed to RawImage.fromURL as it is when no file is set
   (main.ts 81-85) *)
CustomSentinel == [kind |-> "url", name |-> "custom"]

(* C29: no regeneration passes the selection value 'custom' to the image
   loader: the pattern source of every activation is the uploaded file or
   a preset URL. *)
C29_CustomNeverLoaded ==
    \A i \in 1..Len(calls) : calls[i].patternImageUrl # CustomSentinel

(***************************************************************************)
(* Photos chosen one after another (SpecPhotos): the change handler of     *)
(* the photo input (part_001 595-680) awaits the model, the decoded photo  *)
(* and the depth estimation, and the button 'choose another photo' stays   *)
(* in reach while a handler waits (part_001 585-587).                      *)
(***************************************************************************)
Photos == {"beach.jpg", "cat.jpg", "tree.jpg"}

(* the depth estimation of a photo, rendered with 'clamp': margin value and
   image value; photos differ in their depth *)
PhotoDepthRow(file) ==
    CASE file = "beach.jpg" -> << 128, 255 >>
      [] file = "cat.jpg" -> << 128, 192 >>
      [] OTHER -> << 128, 64 >>

(* part_001 632-664: drawImageCentered and the PixelGrid built from it *)
PhotoDepth(file) == DepthGridOf(PhotoDepthRow(file), canvas.width, canvas.height)

(* part_001 112-130: the state as declared, controls untouched *)
PhotosInit ==
    /\ canvas = [width |-> AppWidth, height |-> AppHeight]
    /\ currentDepth = NoGrid
    /\ disparityScale = DefaultScale
    /\ autostereogramImageData = NoGrid
    /\ isProcessing = FALSE
    /\ selectedPattern = "noise"
    /\ customPatternFile = Null
    /\ watermark = "LOU.WTF"
    /\ depthDisplayMode = "clamp"
    /\ originalDepthEstimation = Null
    /\ calls = << >>
    /\ timers = [o \in Owners |-> NoTimer]
    /\ guiVisible = FALSE
    /\ canvasHidden = TRUE
    /\ fileDialog = FALSE
    /\ photo = "chooser"
    /\ dropped = 0
    /\ debounced = [o \in Owners |-> NoEvents]
    /\ inputs = 0
    /\ patternKind = DefaultPattern
    /\ minDisparity = -1
    /\ maxDisparity = -1
    /\ pattern = NoGrid
    /\ output = NoGrid
    /\ cleared = NoGrid
    /\ loopX = 0
    /\ loopY = 0
    /\ fillY = 0
    /\ accesses = {}
    /\ pc = "idle"
    /\ grid = NoGrid
    /\ lastCall = NoCall
    /\ depthRender = NoRender
    /\ PatternIdle
    /\ held = {}
    /\ PhotoIdle

PhotosUnchanged ==
    UNCHANGED << canvas, disparityScale, selectedPattern, customPatternFile,
                 watermark, depthDisplayMode, calls, timers, fileDialog,
                 photo, dropped, debounced, inputs, synthLocals, grid,
                 lastCall, depthRender, patternVars, held >>

Chosen == { selections[k].file : k \in 1..Len(selections) }

InFlight == { k \in 1..Len(selections) : selections[k].at # "done" }

(* part_001 585-587, 593, 608-610: the photo input is shown until the first
   photo is chosen; the button 'choose another photo' is shown at the end
   of a handler and never hidden. *)
MayChoose ==
    \/ selections = << >>
    \/ \E k \in 1..Len(selections) : selections[k].at = "done"

(* part_001 595-620: a photo is chosen; the handler runs to its first
   await, the model *)
PhotoPicked(file) ==
    /\ MayChoose
    /\ file \notin Chosen
    /\ selections' = Append(selections,
          [file |-> file, at |-> "pipeline", during |-> InFlight])
    /\ guiVisible' = FALSE
    /\ canvasHidden' = TRUE
    /\ UNCHANGED << currentImage, currentDepth, originalDepthEstimation,
                    autostereogramImageData, isProcessing >>
    /\ PhotosUnchanged

(* part_001 620-624: the model is there; the handler awaits the decoded
   photo *)
PipelineReady(k) ==
    /\ selections[k].at = "pipeline"
    /\ selections' = [selections EXCEPT ![k].at = "blob"]
    /\ UNCHANGED << currentImage, currentDepth, originalDepthEstimation,
                    autostereogramImageData, isProcessing, guiVisible,
                    canvasHidden >>
    /\ PhotosUnchanged

(* part_001 624-629: the photo is decoded and stored; the handler awaits
   its depth estimation *)
Decoded(k) == selections[k].file

PhotoDecoded(k) ==
    /\ selections[k].at = "blob"
    /\ currentImage' = Decoded(k)
    /\ selections' = [selections EXCEPT ![k].at = "estimate"]
    /\ UNCHANGED << currentDepth, originalDepthEstimation,
                    autostereogramImageData, isProcessing, guiVisible,
                    canvasHidden >>
    /\ PhotosUnchanged

(* part_001 627-680, 135-255: the depth estimation arrives and is stored
   and rendered; generateAutostereogram draws the 'noise' strip itself,
   awaits nothing and runs to its end (the strip stands for the one it
   drew); the controls and the buttons are shown. *)
PhotoDepthEstimated(k) ==
    /\ selections[k].at = "estimate"
    /\ originalDepthEstimation' = selections[k].file
    /\ currentDepth' = PhotoDepth(selections[k].file)
    /\ autostereogramImageData' =
          IF MayStart(currentDepth', isProcessing)
          THEN Synthesize(CallFor(customPatternFile, selectedPattern),
                          currentDepth', disparityScale, watermark)
          ELSE autostereogramImageData
    /\ canvasHidden' = (canvasHidden /\ ~ MayStart(currentDepth', isProcessing))
    /\ guiVisible' = TRUE
    /\ selections' = [selections EXCEPT ![k].at = "done"]
    /\ UNCHANGED << currentImage, isProcessing >>
    /\ PhotosUnchanged

PhotosNext ==
    \/ \E file \in Photos : PhotoPicked(file)
    \/ \E k \in 1..Len(selections) : PipelineReady(k)
    \/ \E k \in 1..Len(selections) : PhotoDecoded(k)
    \/ \E k \in 1..Len(selections) : PhotoDepthEstimated(k)

SpecPhotos == PhotosInit /\ [][PhotosNext]_vars

LastChosen == selections[Len(selections)].file

(* the last photo was chosen while the handler of the one before it was
   waiting *)
LastOverlaps ==
    /\ Len(selections) >= 2
    /\ (Len(selections) - 1) \in selections[Len(selections)].during

(* C30: when the last photo was chosen while the handler of the photo
   before it was still waiting for the model or the depth estimation, then
   once every handler has finished, currentImage, originalDepthEstimation
   and currentDepth are all of the photo chosen last. *)
C30_NoMixedImages ==
    (LastOverlaps /\ InFlight = {}) =>
        /\ currentImage = LastChosen
        /\ originalDepthEstimation = LastChosen
        /\ currentDepth = PhotoDepth(LastChosen)

=============================================================================
